---- MODULE Spec2Model ----
(***************************************************************************)
(* A model of the Aether language front end (aether-lsp): the scanner of   *)
(* src/src/lexer.rs, the token table of src/src/token.rs and the           *)
(* recursive-descent / precedence-climbing parser of src/src/parser.rs.    *)
(*                                                                         *)
(* Representation.  A character is a string: an ASCII character is the     *)
(* one-character string of itself, the end-of-input sentinel '\0' is NUL,  *)
(* a line feed is LF, and a non-ASCII character is named by its code       *)
(* point ("U+2167" is the Roman numeral eight, a character that Rust       *)
(* classifies as alphabetic, uppercase and numeric at once; "U+0663" is    *)
(* the Arabic-Indic digit three, numeric only, two bytes of UTF-8).  A     *)
(* Rust String or Vec<char> is a sequence of characters.  A Token is a     *)
(* record                                                                  *)
(* [t, v]: t the variant name, v its payload as a character sequence.      *)
(* An f64 is represented by the normalised decimal numeral it was parsed   *)
(* from (exact for the literals the model scans).                          *)
(***************************************************************************)
EXTENDS Integers, Sequences, FiniteSets, Bags, TLC

VARIABLES
  text,        \* the document text handed to Parser::new
  pc,          \* where Parser::parse stands: "start", "new", "loop", "err", "done"
  parser,      \* the Parser struct (with its Lexer)
  statements,  \* the statements vector of parse_program
  error,       \* the ParseError parse_program returned, if any
  doc,         \* the ParsedDocument parse returned, if any
  diagnostics, \* the diagnostics DiagnosticEngine::analyze returned, if any
  lexer,       \* a Lexer used on its own (the lexer of check_naming_convention)
  returned,    \* what its next_token calls returned, each with the scanner's answers
  documents,   \* the document cache of the backend: uri -> ParsedDocument
  reply,       \* the last handler of the backend that returned, if any
  tasks,       \* the bag of parse_and_diagnose calls running, each at an await
  published    \* the diagnostics last published to the client: uri -> diagnostics

vars ==
  <<text, pc, parser, statements, error, doc, diagnostics, lexer, returned, documents, reply,
    tasks, published>>

\* the variables of the scanner used on its own, and of the backend
scanVars == <<lexer, returned>>
taskVars == <<tasks, published>>
serverVars == <<documents, reply, taskVars>>

(***************************************************************************)
(* Characters and the char predicates of the Rust standard library         *)
(***************************************************************************)
NUL == "U+0000"
LF == "\n"
TAB == "\t"
CR == "\r"
RomanEight == "U+2167"
ArabicThree == "U+0663"

UpperLetters ==
  {"A","B","C","D","E","F","G","H","I","J","K","L","M",
   "N","O","P","Q","R","S","T","U","V","W","X","Y","Z"}
LowerLetters ==
  {"a","b","c","d","e","f","g","h","i","j","k","l","m",
   "n","o","p","q","r","s","t","u","v","w","x","y","z"}
AsciiDigits == {"0","1","2","3","4","5","6","7","8","9"}

\* char::is_uppercase
IsUppercase(c) == c \in UpperLetters \cup {RomanEight}
\* char::is_alphabetic
IsAlphabetic(c) == c \in UpperLetters \cup LowerLetters \cup {RomanEight}
\* char::is_numeric (general categories Nd, Nl, No)
IsNumeric(c) == c \in AsciiDigits \cup {RomanEight, ArabicThree}
\* char::is_alphanumeric
IsAlphanumeric(c) == IsAlphabetic(c) \/ IsNumeric(c)

(***************************************************************************)
(* Tokens (src/src/token.rs)                                               *)
(***************************************************************************)
Tok(type) == [t |-> type, v |-> <<>>]
TokV(type, payload) == [t |-> type, v |-> payload]

Keywords ==
  << <<<<"S","e","t">>, "Set">>,
     <<<<"F","u","n","c">>, "Func">>,
     <<<<"R","e","t","u","r","n">>, "Return">>,
     <<<<"I","f">>, "If">>,
     <<<<"E","l","i","f">>, "Elif">>,
     <<<<"E","l","s","e">>, "Else">>,
     <<<<"W","h","i","l","e">>, "While">>,
     <<<<"F","o","r">>, "For">>,
     <<<<"I","n">>, "In">>,
     <<<<"B","r","e","a","k">>, "Break">>,
     <<<<"C","o","n","t","i","n","u","e">>, "Continue">>,
     <<<<"G","e","n","e","r","a","t","o","r">>, "Generator">>,
     <<<<"Y","i","e","l","d">>, "Yield">>,
     <<<<"L","a","z","y">>, "Lazy">>,
     <<<<"F","o","r","c","e">>, "Force">>,
     <<<<"S","w","i","t","c","h">>, "Switch">>,
     <<<<"C","a","s","e">>, "Case">>,
     <<<<"D","e","f","a","u","l","t">>, "Default">>,
     <<<<"I","m","p","o","r","t">>, "Import">>,
     <<<<"E","x","p","o","r","t">>, "Export">>,
     <<<<"F","r","o","m">>, "From">>,
     <<<<"A","s">>, "As">>,
     <<<<"L","a","m","b","d","a">>, "Lambda">>,
     <<<<"T","h","r","o","w">>, "Throw">>,
     <<<<"T","r","y">>, "Try">>,
     <<<<"C","a","t","c","h">>, "Catch">>,
     <<<<"N","u","l","l">>, "Null">> >>

\* Token::lookup_keyword
lookup_keyword(ident) ==
  IF \E i \in 1..Len(Keywords) : Keywords[i][1] = ident
  THEN Tok(Keywords[CHOOSE i \in 1..Len(Keywords) : Keywords[i][1] = ident][2])
  ELSE IF ident = <<"T","r","u","e">> THEN TokV("Boolean", <<"true">>)
  ELSE IF ident = <<"F","a","l","s","e">> THEN TokV("Boolean", <<"false">>)
  ELSE TokV("Identifier", ident)

(***************************************************************************)
(* Scanner (src/src/lexer.rs)                                              *)
(***************************************************************************)
\* Lexer::read_char with a fault: the column counter starts again at every
\* character read
read_char_column_restarted(l) ==
  LET c == IF l.read_position >= Len(l.input) THEN NUL
           ELSE l.input[l.read_position + 1]
  IN [l EXCEPT !.ch = c,
               !.line = IF c = LF THEN l.line + 1 ELSE l.line,
               !.column = IF c = LF THEN 0 ELSE 1,
               !.position = l.read_position,
               !.read_position = l.read_position + 1]

\* Lexer::read_char
read_char(l) ==
  LET c == IF l.read_position >= Len(l.input) THEN NUL
           ELSE l.input[l.read_position + 1]
  IN [l EXCEPT !.ch = c,
               !.line = IF c = LF THEN l.line + 1 ELSE l.line,
               !.column = IF c = LF THEN 0 ELSE l.column + 1,
               !.position = l.read_position,
               !.read_position = l.read_position + 1]

\* Lexer::new
LexerNew(input) ==
  read_char([input |-> input, position |-> 0, read_position |-> 0, ch |-> NUL,
             line |-> 1, column |-> 0, had_whitespace_before_token |-> FALSE])

\* Lexer::peek_char
peek_char(l) ==
  IF l.read_position >= Len(l.input) THEN NUL ELSE l.input[l.read_position + 1]

\* Lexer::peek_char_n
peek_char_n(l, n) ==
  IF l.position + n >= Len(l.input) THEN NUL ELSE l.input[l.position + n + 1]

\* the slice self.input[start..self.position]
Slice(l, start) == SubSeq(l.input, start + 1, l.position)

\* Lexer::skip_whitespace: the lexer after the loop
RECURSIVE skip_whitespace(_)
skip_whitespace(l) ==
  IF l.ch = " " \/ l.ch = TAB \/ l.ch = CR THEN skip_whitespace(read_char(l)) ELSE l

\* Lexer::skip_line_comment
RECURSIVE skip_line_comment(_)
skip_line_comment(l) ==
  IF l.ch # LF /\ l.ch # NUL THEN skip_line_comment(read_char(l)) ELSE l

\* the while loop of Lexer::skip_block_comment
RECURSIVE BlockCommentLoop(_)
BlockCommentLoop(l) ==
  IF ~(l.ch = "*" /\ peek_char(l) = "/") /\ l.ch # NUL
  THEN BlockCommentLoop(read_char(
         IF l.ch = LF THEN [l EXCEPT !.line = l.line + 1, !.column = 0] ELSE l))
  ELSE l

\* Lexer::skip_block_comment
skip_block_comment(l) ==
  LET m == BlockCommentLoop(read_char(read_char(l)))
  IN IF m.ch # NUL THEN read_char(read_char(m)) ELSE m

\* the while loop of Lexer::read_identifier
RECURSIVE IdentLoop(_)
IdentLoop(l) ==
  IF IsAlphanumeric(l.ch) \/ l.ch = "_" THEN IdentLoop(read_char(l)) ELSE l

\* Lexer::read_identifier
read_identifier(l) ==
  LET m == IdentLoop(l)
  IN [l |-> m, tok |-> lookup_keyword(Slice(m, l.position))]

\* the while loop of Lexer::read_number with a fault: a first point is read
\* whatever follows it
RECURSIVE NumberLoop_point_unchecked(_, _)
NumberLoop_point_unchecked(l, has_dot) ==
  IF IsNumeric(l.ch) \/ (l.ch = "." /\ ~has_dot)
  THEN NumberLoop_point_unchecked(read_char(l), has_dot \/ l.ch = ".")
  ELSE [l |-> l, has_dot |-> has_dot]

\* the while loop of Lexer::read_number: the lexer and has_dot after it
RECURSIVE NumberLoop(_, _)
NumberLoop(l, has_dot) ==
  IF IsNumeric(l.ch) \/ (l.ch = "." /\ ~has_dot)
  THEN IF l.ch = "." /\ ~IsNumeric(peek_char(l))
       THEN [l |-> l, has_dot |-> has_dot]
       ELSE NumberLoop(read_char(l), has_dot \/ l.ch = ".")
  ELSE [l |-> l, has_dot |-> has_dot]

\* str::len of a scanned numeral: its length in UTF-8 bytes
Utf8Len(c) == IF c = RomanEight THEN 3 ELSE IF c = ArabicThree THEN 2 ELSE 1
RECURSIVE ByteLen(_)
ByteLen(s) == IF s = <<>> THEN 0 ELSE Utf8Len(Head(s)) + ByteLen(Tail(s))

RECURSIVE StripLeadingZeros(_)
StripLeadingZeros(s) ==
  IF Len(s) > 1 /\ Head(s) = "0" THEN StripLeadingZeros(Tail(s)) ELSE s
RECURSIVE StripTrailingZeros(_)
StripTrailingZeros(s) ==
  IF s # <<>> /\ s[Len(s)] = "0" THEN StripTrailingZeros(SubSeq(s, 1, Len(s) - 1))
  ELSE s

(* ---- the arithmetic of f64 ------------------------------------------- *)
\* A natural number of any size is the sequence of its digits to the base
\* 10^4 from the lowest to the highest, with no zero on top; zero is the empty
\* sequence.  Carries are looked ahead, so that no operation walks the digits.
\* The operations are applied through NatCall, defined after them, which
\* applies the operation named to the tuple of its arguments.
RECURSIVE NatCall(_, _)
DigitChars == <<"0","1","2","3","4","5","6","7","8","9">>
DigitValue(c) == (CHOOSE i \in 1..10 : DigitChars[i] = c) - 1
\* without the zeros at the end of a sequence
NatTrim(a) ==
  LET set == {i \in 1..Len(a) : a[i] # 0}
  IN IF set = {} THEN <<>>
     ELSE SubSeq(a, 1, CHOOSE i \in set : \A j \in set : j <= i)
NatLimb(a, i) == IF 1 <= i /\ i <= Len(a) THEN a[i] ELSE 0
\* the decimal digit of a at 10^p, and the count of the decimal digits of a
NatDecimalAt(a, p) == (NatLimb(a, (p \div 4) + 1) \div (10^(p % 4))) % 10
NatDecimalLen(a) ==
  IF a = <<>> THEN 0
  ELSE 4 * Len(a) - Cardinality({t \in 1..3 : a[Len(a)] < 10^t})
\* the number a numeral (characters, highest digit first) denotes
NatOf(s) ==
  LET at(p) == IF p < Len(s) THEN DigitValue(s[Len(s) - p]) ELSE 0
  IN NatTrim([i \in 1..((Len(s) + 3) \div 4) |->
                at(4 * i - 4) + 10 * at(4 * i - 3) + 100 * at(4 * i - 2) + 1000 * at(4 * i - 1)])
\* a + b: a digit takes a carry when, below it, a sum that overflows is
\* followed by sums of 9999 only
NatAdd(a, b) ==
  LET n == IF Len(a) > Len(b) THEN Len(a) ELSE Len(b)
      s == [i \in 1..(n + 1) |-> NatLimb(a, i) + NatLimb(b, i)]
      carry(i) == \E j \in 1..(i - 1) : s[j] >= 10000 /\ \A t \in (j + 1)..(i - 1) : s[t] = 9999
  IN NatTrim([i \in 1..(n + 1) |-> (s[i] + (IF carry(i) THEN 1 ELSE 0)) % 10000])
\* a - b for a >= b, with the borrows looked ahead likewise
NatSub(a, b) ==
  LET borrow(i) == \E j \in 1..(i - 1) :
                      a[j] < NatLimb(b, j) /\ \A t \in (j + 1)..(i - 1) : a[t] = NatLimb(b, t)
  IN NatTrim([i \in 1..Len(a) |->
                (a[i] - NatLimb(b, i) - (IF borrow(i) THEN 1 ELSE 0) + 10000) % 10000])
\* a * k for a factor k of at most 2^17: the products of the digits are below
\* 10^12 and are added as their three digits
NatTimes(a, k) ==
  LET p == [i \in 1..Len(a) |-> a[i] * k]
  IN NatCall("NatAdd",
             <<NatCall("NatAdd", <<[i \in 1..Len(a) |-> p[i] % 10000],
                                   <<0>> \o [i \in 1..Len(a) |-> (p[i] \div 10000) % 10000]>>),
               <<0, 0>> \o [i \in 1..Len(a) |-> p[i] \div 100000000]>>)
\* -1, 0 or 1 as a is below, equal to or above b
NatCmp(a, b) ==
  IF Len(a) < Len(b) THEN -1
  ELSE IF Len(a) > Len(b) THEN 1
  ELSE LET differ == {i \in 1..Len(a) : a[i] # b[i]}
           top == CHOOSE i \in differ : \A j \in differ : j <= i
       IN IF differ = {} THEN 0 ELSE IF a[top] < b[top] THEN -1 ELSE 1
\* a * 2^n and a * 10^n
NatShift2(a, n) ==
  IF n <= 17 THEN NatCall("NatTimes", <<a, 2^n>>)
  ELSE NatCall("NatShift2", <<NatCall("NatShift2", <<a, n \div 2>>), n - (n \div 2)>>)
NatShift10(a, n) ==
  IF a = <<>> THEN a ELSE [i \in 1..(n \div 4) |-> 0] \o NatCall("NatTimes", <<a, 10^(n % 4)>>)
NatScale(a, base, n) ==
  IF base = 2 THEN NatCall("NatShift2", <<a, n>>) ELSE NatCall("NatShift10", <<a, n>>)
\* how often b fits into r, for less than 2 * w times (w a power of two), and
\* what is left: w times or not, and then the same for half of w
NatFitBits(r, b, w) ==
  IF w = 0 THEN [d |-> 0, r |-> r]
  ELSE LET m == NatCall("NatTimes", <<b, w>>)
           fits == NatCmp(r, m) >= 0
           rest == NatCall("NatFitBits",
                           <<IF fits THEN NatCall("NatSub", <<r, m>>) ELSE r, b, w \div 2>>)
       IN [d |-> (IF fits THEN w ELSE 0) + rest.d, r |-> rest.r]
\* for r below b * 16
NatFit(r, b) == NatCall("NatFitBits", <<r, b, 8>>)
\* for r below b * 10^4: the decimal digits d3 d2 d1 of the count found (ds),
\* and then the last one
NatFitLimb(r, b, ds) ==
  LET f == NatCall("NatFit", <<r, NatCall("NatTimes", <<b, 10^(3 - Len(ds))>>)>>)
  IN IF Len(ds) = 3
     THEN [d |-> 1000 * ds[1] + 100 * ds[2] + 10 * ds[3] + f.d, r |-> f.r]
     ELSE NatCall("NatFitLimb", <<f.r, b, ds \o <<f.d>> >>)
\* long division by b of the digits of a from the i-th up: quotient and
\* remainder; the top digits of a, one fewer than b has, are below b
NatDivFrom(a, b, i) ==
  IF i > Len(a) - (Len(b) - 1) THEN [q |-> <<>>, r |-> SubSeq(a, i, Len(a))]
  ELSE NatCall("NatDivStep", <<a[i], b, NatCall("NatDivFrom", <<a, b, i + 1>>)>>)
NatDivStep(digit, b, above) ==
  LET f == NatCall("NatFitLimb", <<NatTrim(<<digit>> \o above.r), b, <<>> >>)
  IN [q |-> NatTrim(<<f.d>> \o above.q), r |-> f.r]
NatDivMod(a, b) == NatCall("NatDivFrom", <<a, b, 1>>)

\* the least count c, at most room, for which x * base^c is not below y, or is
\* above y when strict.  The decimal lengths of x and y bound the count, a
\* factor of ten being between 3.3219 and 3.3220 doublings.
NatRaise(x, y, base, strict, room) ==
  LET gap == NatDecimalLen(y) - NatDecimalLen(x)
      lo == IF base = 10 THEN gap - 1 ELSE ((gap - 1) * 33219) \div 10000
      hi == IF base = 10 THEN gap + 1 ELSE (((gap + 1) * 33220) \div 10000) + 1
      reaches(c) == LET o == NatCmp(NatScale(x, base, c), y) IN o > 0 \/ (~strict /\ o = 0)
      counts == {c \in 0..room : lo <= c /\ c <= hi /\ reaches(c)}
  IN IF hi < 0 THEN 0
     ELSE IF counts = {} THEN room
     ELSE CHOOSE c \in counts : \A j \in counts : c <= j

\* 2^52 and 2^53: the significand of an f64 has 53 bits
TwoTo52 == NatShift2(<<1>>, 52)
TwoTo53 == NatShift2(<<1>>, 53)

\* the f64 nearest to n / m (ties to the even significand), as the significand
\* q and the exponent e of q * 2^e; zero has q = <<>>.  n / m is brought
\* between 2^52 and 2^53 by doubling m, or by doubling n as far as the lowest
\* exponent of an f64, -1074, allows.
NearestF64(n, m) ==
  LET up == NatCall("NatRaise", <<NatCall("NatShift2", <<m, 53>>), n, 2, TRUE, 1100>>)
      down == IF up > 0 THEN 0
              ELSE NatCall("NatRaise", <<n, NatCall("NatShift2", <<m, 52>>), 2, FALSE, 1074>>)
  IN NatCall("NearestScaled", <<NatCall("NatShift2", <<n, down>>),
                                NatCall("NatShift2", <<m, up>>), up - down>>)
\* for a / b between 2^52 and 2^53, or below with e = -1074
NearestScaled(a, b, e) == NatCall("NearestRounded", <<NatDivMod(a, b), b, e>>)
NearestRounded(d, b, e) ==
  LET half == NatCmp(NatCall("NatAdd", <<d.r, d.r>>), b)
      odd == d.q # <<>> /\ d.q[1] % 2 = 1
      rounded == IF half > 0 \/ (half = 0 /\ odd) THEN NatCall("NatAdd", <<d.q, <<1>> >>)
                 ELSE d.q
  IN IF rounded = TwoTo53 THEN [q |-> TwoTo52, e |-> e + 1] ELSE [q |-> rounded, e |-> e]

\* The first n decimal digits of r / s, as a number, with what is left of r,
\* and whether that rest is inside the gap mm / s to the f64 below (low) or
\* the next decimal is inside the gap mp / s to the f64 above (high); the
\* bounds belong to the f64 when its significand is even.
ShortestAt(r, s, mp, mm, even, n) ==
  NatCall("ShortestRest", <<NatDivMod(NatCall("NatShift10", <<r, n>>), s), s,
                            NatCall("NatShift10", <<mp, n>>),
                            NatCall("NatShift10", <<mm, n>>), even>>)
ShortestRest(d, s, mp, mm, even) ==
  LET lowc == NatCmp(d.r, mm)
      highc == NatCmp(NatCall("NatAdd", <<d.r, mp>>), s)
  IN [q |-> d.q, r |-> d.r,
      low |-> lowc < 0 \/ (even /\ lowc = 0),
      high |-> highc > 0 \/ (even /\ highc = 0)]
\* the least count of digits in lo..hi at which the digits stop; they stop at
\* every count from the first on
ShortestLen(r, s, mp, mm, even, lo, hi) ==
  IF lo >= hi THEN lo
  ELSE NatCall("ShortestHalf",
               <<r, s, mp, mm, even, lo, hi,
                 NatCall("ShortestAt", <<r, s, mp, mm, even, (lo + hi) \div 2>>)>>)
ShortestHalf(r, s, mp, mm, even, lo, hi, f) ==
  IF f.low \/ f.high THEN NatCall("ShortestLen", <<r, s, mp, mm, even, lo, (lo + hi) \div 2>>)
  ELSE NatCall("ShortestLen", <<r, s, mp, mm, even, ((lo + hi) \div 2) + 1, hi>>)

\* The shortest decimal that reads back as the f64 q * 2^e, q > 0
\* (flt2dec::strategy::dragon::format_shortest, with which grisu agrees where
\* it answers): the decimal digits (highest first) and the exponent k of
\* 0.d1d2... * 10^k.  With r / s the value and mp / s, mm / s the halves of the
\* gaps to the f64 above and below (the gap below a power of two is half the
\* gap above it), the upper bound (r + mp) / s is brought between 1/10 and 1 by
\* tens, and the digits of r / s are taken until the rest is inside a gap: the
\* last digit stays when only the lower gap holds the rest, goes up when only
\* the upper one does, and goes to the nearer decimal, up from one half, when
\* both do.  17 digits tell every f64 from its neighbours.
ShortestF64(q, e) ==
  LET uneven == q = TwoTo52 /\ e > -1074
      unit == IF uneven THEN 2 ELSE 1
      mm == IF e >= 0 THEN NatCall("NatShift2", << <<1>>, e >>) ELSE <<1>>
  IN NatCall("ShortestScaled",
             <<IF e >= 0 THEN NatCall("NatShift2", <<q, e + unit>>)
               ELSE NatCall("NatTimes", <<q, 2 * unit>>),
               IF e >= 0 THEN <<2 * unit>> ELSE NatCall("NatShift2", << <<1>>, unit - e >>),
               NatCall("NatTimes", <<mm, unit>>), mm, q[1] % 2 = 0>>)
ShortestScaled(r, s, mp, mm, even) ==
  LET top == NatCall("NatAdd", <<r, mp>>)
      up == NatCall("NatRaise", <<s, top, 10, even, 400>>)
      down == IF up > 0 THEN 0
              ELSE NatCall("NatRaise", <<NatCall("NatShift10", <<top, 1>>), s, 10, ~even, 400>>)
  IN NatCall("ShortestDigits",
             <<NatCall("NatShift10", <<r, down>>), NatCall("NatShift10", <<s, up>>),
               NatCall("NatShift10", <<mp, down>>), NatCall("NatShift10", <<mm, down>>),
               even, up - down>>)
ShortestDigits(r, s, mp, mm, even, k) ==
  NatCall("ShortestTaken", <<r, s, mp, mm, even, k,
                             NatCall("ShortestLen", <<r, s, mp, mm, even, 1, 17>>)>>)
ShortestTaken(r, s, mp, mm, even, k, n) ==
  NatCall("ShortestLast", <<NatCall("ShortestAt", <<r, s, mp, mm, even, n>>), s, k, n>>)
ShortestLast(f, s, k, n) ==
  LET stays == f.low /\ (~f.high \/ NatCmp(NatCall("NatAdd", <<f.r, f.r>>), s) < 0)
  IN NatCall("ShortestWritten", <<IF stays THEN f.q ELSE NatCall("NatAdd", <<f.q, <<1>> >>),
                                  k, n>>)
\* a last digit that went up may have carried as far as a digit more
ShortestWritten(last, k, n) ==
  LET width == IF NatDecimalLen(last) > n THEN n + 1 ELSE n
  IN [digits |-> NatTrim([j \in 1..width |-> NatDecimalAt(last, width - j)]),
      k |-> k + width - n]

\* 0.d1d2... * 10^k written out as a numeral
PlainNumeral(digits, k) ==
  LET cs == [i \in 1..Len(digits) |-> DigitChars[digits[i] + 1]]
      n == Len(cs)
  IN IF k <= 0 THEN <<"0", ".">> \o [i \in 1..(-k) |-> "0"] \o cs
     ELSE IF k >= n THEN cs \o [i \in 1..(k - n) |-> "0"]
     ELSE SubSeq(cs, 1, k) \o <<".">> \o SubSeq(cs, k + 1, n)

\* the f64 of the numeral ip.fp as the shortest numeral that reads back as it;
\* "inf" from 2^1024 = 2^52 * 2^972 on
RoundF64(ip, fp) ==
  NatCall("RoundedF64", <<NatCall("NearestF64", <<NatOf(ip \o fp),
                                                   NatCall("NatShift10", << <<1>>, Len(fp) >>)>>)>>)
RoundedF64(f) ==
  IF f.q = <<>> THEN <<"0">>
  ELSE IF f.e >= 972 THEN <<"i", "n", "f">>
  ELSE NatCall("WrittenF64", <<NatCall("ShortestF64", <<f.q, f.e>>)>>)
WrittenF64(d) == PlainNumeral(d.digits, d.k)

\* The application of the operation named op to the arguments x.  TLC computes
\* a value where it is first needed, which may be deep inside the operators
\* that use it; the arguments are computed here, one after the other, before
\* the operation is applied.
NatCall(op, x) ==
  CASE Len(x) = 0 -> <<>>
    [] op = "NatAdd" -> NatAdd(x[1], x[2])
    [] op = "NatSub" -> NatSub(x[1], x[2])
    [] op = "NatTimes" -> NatTimes(x[1], x[2])
    [] op = "NatShift2" -> NatShift2(x[1], x[2])
    [] op = "NatShift10" -> NatShift10(x[1], x[2])
    [] op = "NatFitBits" -> NatFitBits(x[1], x[2], x[3])
    [] op = "NatFit" -> NatFit(x[1], x[2])
    [] op = "NatFitLimb" -> NatFitLimb(x[1], x[2], x[3])
    [] op = "NatDivFrom" -> NatDivFrom(x[1], x[2], x[3])
    [] op = "NatDivStep" -> NatDivStep(x[1], x[2], x[3])
    [] op = "NatRaise" -> NatRaise(x[1], x[2], x[3], x[4], x[5])
    [] op = "NearestF64" -> NearestF64(x[1], x[2])
    [] op = "NearestScaled" -> NearestScaled(x[1], x[2], x[3])
    [] op = "NearestRounded" -> NearestRounded(x[1], x[2], x[3])
    [] op = "ShortestAt" -> ShortestAt(x[1], x[2], x[3], x[4], x[5], x[6])
    [] op = "ShortestRest" -> ShortestRest(x[1], x[2], x[3], x[4], x[5])
    [] op = "ShortestLen" -> ShortestLen(x[1], x[2], x[3], x[4], x[5], x[6], x[7])
    [] op = "ShortestHalf" -> ShortestHalf(x[1], x[2], x[3], x[4], x[5], x[6], x[7], x[8])
    [] op = "ShortestF64" -> ShortestF64(x[1], x[2])
    [] op = "ShortestScaled" -> ShortestScaled(x[1], x[2], x[3], x[4], x[5])
    [] op = "ShortestDigits" -> ShortestDigits(x[1], x[2], x[3], x[4], x[5], x[6])
    [] op = "ShortestTaken" -> ShortestTaken(x[1], x[2], x[3], x[4], x[5], x[6], x[7])
    [] op = "ShortestLast" -> ShortestLast(x[1], x[2], x[3], x[4])
    [] op = "ShortestWritten" -> ShortestWritten(x[1], x[2], x[3])
    [] op = "RoundF64" -> RoundF64(x[1], x[2])
    [] op = "RoundedF64" -> RoundedF64(x[1])
    [] op = "WrittenF64" -> WrittenF64(x[1])

\* str::parse::<f64> on a numeral the scanner produced (digits with at most one
\* inner point): the f64, as the shortest decimal numeral that reads back as
\* it, or failure for a numeral holding a character that is no ASCII digit.  A
\* numeral of at most 15 significant digits and above 1e-300 is the shortest
\* numeral of its f64 itself, without the zeros that lead and trail it.
ParseF64(s) ==
  IF \E i \in 1..Len(s) : s[i] \notin AsciiDigits \cup {"."}
  THEN [ok |-> FALSE, val |-> <<>>]
  ELSE LET point == {i \in 1..Len(s) : s[i] = "."}
           d == IF point = {} THEN Len(s) + 1 ELSE CHOOSE i \in point : TRUE
           ip == StripLeadingZeros(SubSeq(s, 1, d - 1))
           fp == StripTrailingZeros(SubSeq(s, d + 1, Len(s)))
           significant == StripLeadingZeros(ip \o fp)
       IN [ok |-> TRUE,
           val |-> IF Len(significant) > 15 \/ Len(fp) > 300
                   THEN NatCall("RoundF64", <<ip, fp>>)
                   ELSE IF fp = <<>> THEN ip ELSE ip \o <<".">> \o fp]

\* the digit count above which an integer literal is kept as a BigInteger
BigIntegerDigits == 15

\* Lexer::read_number
read_number(l) ==
  LET r == NumberLoop(l, FALSE)
      num_str == Slice(r.l, l.position)
      f == ParseF64(num_str)
  IN IF ~r.has_dot /\ ByteLen(num_str) > BigIntegerDigits
     THEN [l |-> r.l, tok |-> TokV("BigInteger", num_str)]
     ELSE IF f.ok THEN [l |-> r.l, tok |-> TokV("Number", f.val)]
     ELSE [l |-> r.l, tok |-> TokV("Illegal", <<"0">>)]

\* Lexer::process_escapes
RECURSIVE process_escapes(_)
process_escapes(s) ==
  IF s = <<>> THEN <<>>
  ELSE IF Head(s) = "\\"
  THEN IF Len(s) = 1 THEN <<"\\">>
       ELSE LET c == s[2]
                rest == process_escapes(SubSeq(s, 3, Len(s)))
            IN IF c = "n" THEN <<LF>> \o rest
               ELSE IF c = "t" THEN <<TAB>> \o rest
               ELSE IF c = "r" THEN <<CR>> \o rest
               ELSE IF c = "\\" THEN <<"\\">> \o rest
               ELSE IF c = "\"" THEN <<"\"">> \o rest
               ELSE <<"\\", c>> \o rest
  ELSE <<Head(s)>> \o process_escapes(Tail(s))

\* the while loop of Lexer::read_string
RECURSIVE StringLoop(_)
StringLoop(l) ==
  IF l.ch # "\"" /\ l.ch # NUL
  THEN IF l.ch = "\\"
       THEN LET m == read_char(l)
            IN StringLoop(IF m.ch # NUL THEN read_char(m) ELSE m)
       ELSE StringLoop(read_char(
              IF l.ch = LF THEN [l EXCEPT !.line = l.line + 1, !.column = 0] ELSE l))
  ELSE l

\* Lexer::read_string
read_string(l) ==
  LET s == read_char(l)
      m == StringLoop(s)
  IN IF m.ch = NUL THEN [l |-> m, tok |-> TokV("Illegal", <<"\"">>)]
     ELSE [l |-> read_char(m), tok |-> TokV("String", process_escapes(Slice(m, s.position)))]

\* the loop of Lexer::read_multiline_string; start is the position after the
\* opening delimiter
RECURSIVE MultilineLoop(_, _)
MultilineLoop(l, start) ==
  IF l.ch = NUL THEN [l |-> l, tok |-> TokV("Illegal", <<"\"">>)]
  ELSE IF l.ch = "\"" /\ peek_char(l) = "\"" /\ peek_char_n(l, 2) = "\""
  THEN [l |-> read_char(read_char(read_char(l))),
        tok |-> TokV("String", process_escapes(Slice(l, start)))]
  ELSE MultilineLoop(read_char(
         IF l.ch = LF THEN [l EXCEPT !.line = l.line + 1, !.column = 0] ELSE l), start)

\* Lexer::read_multiline_string
read_multiline_string(l) ==
  LET s == read_char(read_char(read_char(l)))
  IN MultilineLoop(s, s.position)

SingleCharTokens ==
  [c \in {"+","*","%","(",")","{","}","[","]",",",":",";"} |->
     CASE c = "+" -> "Plus" [] c = "*" -> "Multiply" [] c = "%" -> "Modulo"
       [] c = "(" -> "LeftParen" [] c = ")" -> "RightParen"
       [] c = "{" -> "LeftBrace" [] c = "}" -> "RightBrace"
       [] c = "[" -> "LeftBracket" [] c = "]" -> "RightBracket"
       [] c = "," -> "Comma" [] c = ":" -> "Colon" [] c = ";" -> "Semicolon"]

\* the two-character operators with a fault: & and | alone are tokens of their
\* own, and -> is no pair
TwoCharOps_bitwise ==
  [c \in {"=","!","<",">","&","|"} |->
     CASE c = "=" -> <<"=", Tok("Equal"), Tok("Assign")>>
       [] c = "!" -> <<"=", Tok("NotEqual"), Tok("Not")>>
       [] c = "<" -> <<"=", Tok("LessEqual"), Tok("Less")>>
       [] c = ">" -> <<"=", Tok("GreaterEqual"), Tok("Greater")>>
       [] c = "&" -> <<"&", Tok("And"), Tok("BitAnd")>>
       [] c = "|" -> <<"|", Tok("Or"), Tok("BitOr")>>]

\* the two-character operators: first character, second character, the token
\* of the pair, the token of the first character alone
TwoCharOps ==
  [c \in {"-","=","!","<",">","&","|"} |->
     CASE c = "-" -> <<">", Tok("Arrow"), Tok("Minus")>>
       [] c = "=" -> <<"=", Tok("Equal"), Tok("Assign")>>
       [] c = "!" -> <<"=", Tok("NotEqual"), Tok("Not")>>
       [] c = "<" -> <<"=", Tok("LessEqual"), Tok("Less")>>
       [] c = ">" -> <<"=", Tok("GreaterEqual"), Tok("Greater")>>
       [] c = "&" -> <<"&", Tok("And"), TokV("Illegal", <<"&">>)>>
       [] c = "|" -> <<"|", Tok("Or"), TokV("Illegal", <<"|">>)>>]

\* Lexer::next_token: the lexer after the call and the token returned
RECURSIVE LexerNextToken(_)
LexerNextToken(l0) ==
  LET w == skip_whitespace(l0)
      l == [w EXCEPT !.had_whitespace_before_token = (w.position # l0.position)]
      c == l.ch
  IN IF c = "/" /\ peek_char(l) = "/" THEN LexerNextToken(skip_line_comment(l))
     ELSE IF c = "/" /\ peek_char(l) = "*" THEN LexerNextToken(skip_block_comment(l))
     ELSE IF c = "/" THEN [l |-> read_char(l), tok |-> Tok("Divide")]
     ELSE IF c \in DOMAIN TwoCharOps
     THEN IF peek_char(l) = TwoCharOps[c][1]
          THEN [l |-> read_char(read_char(l)), tok |-> TwoCharOps[c][2]]
          ELSE [l |-> read_char(l), tok |-> TwoCharOps[c][3]]
     ELSE IF c \in DOMAIN SingleCharTokens
     THEN [l |-> read_char(l), tok |-> Tok(SingleCharTokens[c])]
     ELSE IF c = "\""
     THEN IF peek_char(l) = "\"" /\ peek_char_n(l, 2) = "\""
          THEN read_multiline_string(l) ELSE read_string(l)
     ELSE IF c = LF THEN [l |-> read_char(l), tok |-> Tok("Newline")]
     ELSE IF c = NUL THEN [l |-> read_char(l), tok |-> Tok("EOF")]
     ELSE IF IsAlphabetic(c) \/ c = "_" THEN read_identifier(l)
     ELSE IF IsNumeric(c) THEN read_number(l)
     ELSE [l |-> read_char(l), tok |-> TokV("Illegal", <<c>>)]

(***************************************************************************)
(* AST (src/src/ast.rs)                                                    *)
(***************************************************************************)
ENumber(n) == [kind |-> "Number", value |-> n]
EBigInteger(s) == [kind |-> "BigInteger", value |-> s]
EString(s) == [kind |-> "String", value |-> s]
EBoolean(b) == [kind |-> "Boolean", value |-> b]
ENull == [kind |-> "Null"]
EIdentifier(name) == [kind |-> "Identifier", name |-> name]
EArray(elements) == [kind |-> "Array", elements |-> elements]
EDict(pairs) == [kind |-> "Dict", pairs |-> pairs]
EBinary(left, op, right) == [kind |-> "Binary", left |-> left, op |-> op, right |-> right]
EUnary(op, expr) == [kind |-> "Unary", op |-> op, expr |-> expr]
ECall(func, args) == [kind |-> "Call", func |-> func, args |-> args]
EIndex(object, index) == [kind |-> "Index", object |-> object, index |-> index]
EIf(condition, then_branch, elif_branches, else_branch) ==
  [kind |-> "If", condition |-> condition, then_branch |-> then_branch,
   elif_branches |-> elif_branches, else_branch |-> else_branch]
ELambda(params, body) == [kind |-> "Lambda", params |-> params, body |-> body]

\* Option<T>
None == [some |-> FALSE, val |-> <<>>]
Some(x) == [some |-> TRUE, val |-> x]

SSet(name, value) == [kind |-> "Set", name |-> name, value |-> value]
SSetIndex(object, index, value) ==
  [kind |-> "SetIndex", object |-> object, index |-> index, value |-> value]
SFuncDef(name, params, body) ==
  [kind |-> "FuncDef", name |-> name, params |-> params, body |-> body]
SGeneratorDef(name, params, body) ==
  [kind |-> "GeneratorDef", name |-> name, params |-> params, body |-> body]
SLazyDef(name, expr) == [kind |-> "LazyDef", name |-> name, expr |-> expr]
SReturn(expr) == [kind |-> "Return", expr |-> expr]
SYield(expr) == [kind |-> "Yield", expr |-> expr]
SBreak == [kind |-> "Break"]
SContinue == [kind |-> "Continue"]
SWhile(condition, body) == [kind |-> "While", condition |-> condition, body |-> body]
SFor(var, iterable, body) ==
  [kind |-> "For", var |-> var, iterable |-> iterable, body |-> body]
SForIndexed(index_var, value_var, iterable, body) ==
  [kind |-> "ForIndexed", index_var |-> index_var, value_var |-> value_var,
   iterable |-> iterable, body |-> body]
SSwitch(expr, cases, default) ==
  [kind |-> "Switch", expr |-> expr, cases |-> cases, default |-> default]
SImport(names, path, aliases) ==
  [kind |-> "Import", names |-> names, path |-> path, aliases |-> aliases]
SExport(name) == [kind |-> "Export", name |-> name]
SThrow(expr) == [kind |-> "Throw", expr |-> expr]
SExpression(expr) == [kind |-> "Expression", expr |-> expr]

(***************************************************************************)
(* Parser (src/src/parser.rs)                                              *)
(***************************************************************************)
\* enum Precedence
Precedence ==
  [Lowest |-> 0, Or |-> 1, And |-> 2, Equals |-> 3, Comparison |-> 4,
   Sum |-> 5, Product |-> 6, Prefix |-> 7, Call |-> 8, Index |-> 9]

\* Parser::new
ParserNew(input) ==
  LET c == LexerNextToken(LexerNew(input))
      k == LexerNextToken(c.l)
  IN [lexer |-> k.l, current_token |-> c.tok, peek_token |-> k.tok,
      current_line |-> k.l.line, current_column |-> k.l.column,
      current_had_whitespace |-> c.l.had_whitespace_before_token,
      peek_had_whitespace |-> k.l.had_whitespace_before_token]

\* Parser::next_token with a fault: the flag of the current token is the one
\* the scanner reports now
next_token_flag_not_carried(p) ==
  LET r == LexerNextToken(p.lexer)
  IN [lexer |-> r.l, current_token |-> p.peek_token, peek_token |-> r.tok,
      current_line |-> r.l.line, current_column |-> r.l.column,
      current_had_whitespace |-> r.l.had_whitespace_before_token,
      peek_had_whitespace |-> r.l.had_whitespace_before_token]

\* Parser::next_token
next_token(p) ==
  LET r == LexerNextToken(p.lexer)
  IN [lexer |-> r.l, current_token |-> p.peek_token, peek_token |-> r.tok,
      current_line |-> r.l.line, current_column |-> r.l.column,
      current_had_whitespace |-> p.peek_had_whitespace,
      peek_had_whitespace |-> r.l.had_whitespace_before_token]

\* Result<T, ParseError> together with the parser the call leaves behind
Ok(p, val) == [ok |-> TRUE, p |-> p, val |-> val]
\* a ParseError raised at the parser's current token and position
Err(p, kind, expected, name, message) ==
  [ok |-> FALSE, p |-> p,
   err |-> [kind |-> kind, expected |-> expected,
            found |-> IF kind = "UnexpectedToken" THEN p.current_token ELSE Tok("-"),
            name |-> name, message |-> message,
            line |-> p.current_line, column |-> p.current_column]]
\* the ? operator: an Err passed up unchanged
Fail(r) == [ok |-> FALSE, p |-> r.p, err |-> r.err]

\* The methods of the parser call each other in cycles (a statement holds
\* expressions, an expression holds blocks of statements).  A call of the method
\* m on the parser p is written Call("m", p, a), where a is the remaining
\* argument, the tuple of the remaining arguments, or <<>>; Call, defined after
\* the methods, applies the method named.
RECURSIVE Call(_, _, _)

\* Parser::skip_newlines
skip_newlines(p) ==
  IF p.current_token = Tok("Newline") THEN Call("skip_newlines", Call("next_token", p, <<>>), <<>>) ELSE p

\* Parser::expect_token; expected is the token and its Debug rendering
expect_token(p, expected) ==
  IF p.current_token = Tok(expected) THEN Ok(Call("next_token", p, <<>>), <<>>)
  ELSE Err(p, "UnexpectedToken", expected, <<>>, "")

\* the optional statement terminator: a Newline or Semicolon is consumed
SkipTerminator(p) ==
  IF p.current_token = Tok("Newline") \/ p.current_token = Tok("Semicolon")
  THEN Call("next_token", p, <<>>) ELSE p

\* the reason texts of ParseError::InvalidIdentifier, character by character; a
\* character outside ASCII is written by its code point: "identifier must not
\* start with a digit", "parameter names hold only letters, digits and
\* underscores", "variable and function names must be all uppercase letters
\* and underscores (e.g. MY_VAR, CALCULATE_SUM)"
ReasonLeadingDigit ==
  <<"U+6807", "U+8BC6", "U+7B26", "U+4E0D", "U+80FD", "U+4EE5", "U+6570", "U+5B57",
    "U+5F00", "U+5934">>
ReasonParameterName ==
  <<"U+53C2", "U+6570", "U+540D", "U+53EA", "U+80FD", "U+5305", "U+542B", "U+5B57",
    "U+6BCD", "U+3001", "U+6570", "U+5B57", "U+548C", "U+4E0B", "U+5212", "U+7EBF">>
ReasonUppercaseName ==
  <<"U+53D8", "U+91CF", "U+540D", "U+548C", "U+51FD", "U+6570", "U+540D", "U+5FC5",
    "U+987B", "U+4F7F", "U+7528", "U+5168", "U+5927", "U+5199", "U+5B57", "U+6BCD",
    "U+548C", "U+4E0B", "U+5212", "U+7EBF", "U+FF08", "U+4F8B", "U+5982", "U+FF1A", "M",
    "Y", "_", "V", "A", "R", ",", " ", "C", "A", "L", "C", "U", "L", "A", "T", "E", "_",
    "S", "U", "M", "U+FF09">>

\* validate_identifier_internal with a fault: the strict rule is never applied
validate_identifier_internal_relaxed(p, name, is_param) ==
  IF name # <<>> /\ IsNumeric(Head(name))
  THEN Err(p, "InvalidIdentifier", "", name, ReasonLeadingDigit)
  ELSE IF \A i \in 1..Len(name) :
            IsAlphabetic(name[i]) \/ IsNumeric(name[i]) \/ name[i] = "_"
       THEN Ok(p, <<>>)
       ELSE Err(p, "InvalidIdentifier", "", name, ReasonParameterName)

\* validate_identifier_internal with a fault: the strict rule is applied to
\* parameters too
validate_identifier_internal_strict(p, name, is_param) ==
  IF name # <<>> /\ IsNumeric(Head(name))
  THEN Err(p, "InvalidIdentifier", "", name, ReasonLeadingDigit)
  ELSE IF \A i \in 1..Len(name) :
            IsUppercase(name[i]) \/ IsNumeric(name[i]) \/ name[i] = "_"
       THEN Ok(p, <<>>)
       ELSE Err(p, "InvalidIdentifier", "", name, ReasonUppercaseName)

\* Parser::validate_identifier_internal
validate_identifier_internal(p, name, is_param) ==
  IF name # <<>> /\ IsNumeric(Head(name))
  THEN Err(p, "InvalidIdentifier", "", name, ReasonLeadingDigit)
  ELSE IF is_param
  THEN IF \A i \in 1..Len(name) :
            IsAlphabetic(name[i]) \/ IsNumeric(name[i]) \/ name[i] = "_"
       THEN Ok(p, <<>>)
       ELSE Err(p, "InvalidIdentifier", "", name, ReasonParameterName)
  ELSE IF \A i \in 1..Len(name) :
            IsUppercase(name[i]) \/ IsNumeric(name[i]) \/ name[i] = "_"
       THEN Ok(p, <<>>)
       ELSE Err(p, "InvalidIdentifier", "", name, ReasonUppercaseName)

\* Parser::validate_identifier
validate_identifier(p, name) == Call("validate_identifier_internal", p, <<name, FALSE>>)

\* token_precedence with a fault: the sum and product levels are exchanged
token_precedence_exchanged(token) ==
  CASE token.t = "Or" -> Precedence.Or
    [] token.t = "And" -> Precedence.And
    [] token.t \in {"Equal", "NotEqual"} -> Precedence.Equals
    [] token.t \in {"Less", "LessEqual", "Greater", "GreaterEqual"} -> Precedence.Comparison
    [] token.t \in {"Plus", "Minus"} -> Precedence.Product
    [] token.t \in {"Multiply", "Divide", "Modulo"} -> Precedence.Sum
    [] token.t = "LeftParen" -> Precedence.Call
    [] token.t = "LeftBracket" -> Precedence.Index
    [] OTHER -> Precedence.Lowest

\* Parser::token_precedence
token_precedence(token) ==
  CASE token.t = "Or" -> Precedence.Or
    [] token.t = "And" -> Precedence.And
    [] token.t \in {"Equal", "NotEqual"} -> Precedence.Equals
    [] token.t \in {"Less", "LessEqual", "Greater", "GreaterEqual"} -> Precedence.Comparison
    [] token.t \in {"Plus", "Minus"} -> Precedence.Sum
    [] token.t \in {"Multiply", "Divide", "Modulo"} -> Precedence.Product
    [] token.t = "LeftParen" -> Precedence.Call
    [] token.t = "LeftBracket" -> Precedence.Index
    [] OTHER -> Precedence.Lowest

\* Parser::current_precedence
current_precedence(p) == token_precedence(p.current_token)

\* the operator table of Parser::parse_binary_expression
BinOpOf ==
  [t \in {"Plus","Minus","Multiply","Divide","Modulo","Equal","NotEqual","Less",
          "LessEqual","Greater","GreaterEqual","And","Or"} |->
     CASE t = "Plus" -> "Add" [] t = "Minus" -> "Subtract"
       [] t = "Multiply" -> "Multiply" [] t = "Divide" -> "Divide"
       [] t = "Modulo" -> "Modulo" [] t = "Equal" -> "Equal"
       [] t = "NotEqual" -> "NotEqual" [] t = "Less" -> "Less"
       [] t = "LessEqual" -> "LessEqual" [] t = "Greater" -> "Greater"
       [] t = "GreaterEqual" -> "GreaterEqual" [] t = "And" -> "And"
       [] t = "Or" -> "Or"]

\* the boundary tokens at which the loop of Parser::parse_expression stops
ExpressionBoundary ==
  {"Newline", "Semicolon", "EOF", "RightParen", "RightBracket", "RightBrace",
   "Comma", "Colon"}

\* the loop of Parser::parse_parameter_list
ParameterLoop(p, params) ==
  IF p.current_token.t = "Identifier"
  THEN LET v == Call("validate_identifier_internal", p, <<p.current_token.v, TRUE>>)
           q == Call("next_token", p, <<>>)
           ps == Append(params, p.current_token.v)
       IN IF ~v.ok THEN v
          ELSE IF q.current_token = Tok("Comma") THEN Call("ParameterLoop", Call("next_token", q, <<>>), ps)
          ELSE Ok(q, ps)
  ELSE Ok(p, params)

\* Parser::parse_parameter_list
parse_parameter_list(p) ==
  IF p.current_token = Tok("RightParen") THEN Ok(p, <<>>) ELSE Call("ParameterLoop", p, <<>>)

\* the while loop of Parser::parse_block
BlockLoop(p, stmts) ==
  IF p.current_token # Tok("RightBrace") /\ p.current_token # Tok("EOF")
  THEN LET r == Call("parse_statement", p, <<>>)
       IN IF ~r.ok THEN r ELSE Call("BlockLoop", Call("skip_newlines", r.p, <<>>), Append(stmts, r.val))
  ELSE Ok(p, stmts)

\* Parser::parse_block
parse_block(p) == Call("BlockLoop", Call("skip_newlines", p, <<>>), <<>>)

\* the sequence  skip_newlines; expect '{'; parse_block; expect '}'  that ends
\* every braced construct
BracedBlock(p) ==
  LET a == Call("expect_token", Call("skip_newlines", p, <<>>), "LeftBrace")
      b == Call("parse_block", a.p, <<>>)
      c == Call("expect_token", b.p, "RightBrace")
  IN IF ~a.ok THEN a ELSE IF ~b.ok THEN b ELSE IF ~c.ok THEN c ELSE Ok(c.p, b.val)

\* the sequence  expect '('; parse_expression; expect ')'  of a condition
ParenExpression(p) ==
  LET a == Call("expect_token", p, "LeftParen")
      b == Call("parse_expression", a.p, Precedence.Lowest)
      c == Call("expect_token", b.p, "RightParen")
  IN IF ~a.ok THEN a ELSE IF ~b.ok THEN b ELSE IF ~c.ok THEN c ELSE Ok(c.p, b.val)

\* the tail  expect '('; parse_parameter_list; expect ')'; block  shared by
\* function, generator and lambda definitions: its value is <<params, body>>
FuncTail(p) ==
  LET a == Call("expect_token", p, "LeftParen")
      ps == Call("parse_parameter_list", a.p, <<>>)
      c == Call("expect_token", ps.p, "RightParen")
      b == Call("BracedBlock", c.p, <<>>)
  IN IF ~a.ok THEN a ELSE IF ~ps.ok THEN ps ELSE IF ~c.ok THEN c
     ELSE IF ~b.ok THEN b ELSE Ok(b.p, <<ps.val, b.val>>)

\* Parser::parse_grouped_expression
parse_grouped_expression(p) ==
  LET r == Call("parse_expression", Call("next_token", p, <<>>), Precedence.Lowest)
  IN IF ~r.ok THEN r
     ELSE IF r.p.current_token = Tok("RightParen") THEN Ok(Call("next_token", r.p, <<>>), r.val)
     ELSE Err(r.p, "UnexpectedToken", "RightParen", <<>>, "")

\* the while loop of Parser::parse_array_literal
ArrayLoop(p, elements) ==
  IF p.current_token # Tok("RightBracket") /\ p.current_token # Tok("EOF")
  THEN LET r == Call("parse_expression", p, Precedence.Lowest)
           q == Call("skip_newlines", r.p, <<>>)
           es == Append(elements, r.val)
       IN IF ~r.ok THEN r
          ELSE IF q.current_token = Tok("Comma")
          THEN Call("ArrayLoop", Call("skip_newlines", Call("next_token", q, <<>>), <<>>), es)
          ELSE IF q.current_token = Tok("RightBracket") THEN Ok(q, es)
          ELSE Call("ArrayLoop", q, es)
  ELSE Ok(p, elements)

\* Parser::parse_array_literal
parse_array_literal(p) ==
  LET r == Call("ArrayLoop", Call("skip_newlines", Call("next_token", p, <<>>), <<>>), <<>>)
      e == Call("expect_token", r.p, "RightBracket")
  IN IF ~r.ok THEN r ELSE IF ~e.ok THEN e ELSE Ok(e.p, EArray(r.val))

\* the while loop of Parser::parse_dict_literal
DictLoop(p, pairs) ==
  IF p.current_token # Tok("RightBrace") /\ p.current_token # Tok("EOF")
  THEN IF p.current_token.t \notin {"Identifier", "String"}
       THEN Err(p, "UnexpectedToken", "identifier or string", <<>>, "")
       ELSE LET key == p.current_token.v
                c == Call("expect_token", Call("next_token", p, <<>>), "Colon")
                r == Call("parse_expression", c.p, Precedence.Lowest)
                q == Call("skip_newlines", r.p, <<>>)
                ps == Append(pairs, <<key, r.val>>)
            IN IF ~c.ok THEN c
               ELSE IF ~r.ok THEN r
               ELSE IF q.current_token = Tok("Comma")
               THEN Call("DictLoop", Call("skip_newlines", Call("next_token", q, <<>>), <<>>), ps)
               ELSE IF q.current_token = Tok("RightBrace") THEN Ok(q, ps)
               ELSE Call("DictLoop", q, ps)
  ELSE Ok(p, pairs)

\* Parser::parse_dict_literal
parse_dict_literal(p) ==
  LET r == Call("DictLoop", Call("skip_newlines", Call("next_token", p, <<>>), <<>>), <<>>)
      e == Call("expect_token", r.p, "RightBrace")
  IN IF ~r.ok THEN r ELSE IF ~e.ok THEN e ELSE Ok(e.p, EDict(r.val))

\* Parser::parse_unary_expression
parse_unary_expression(p, op) ==
  LET r == Call("parse_expression", Call("next_token", p, <<>>), Precedence.Prefix)
  IN IF ~r.ok THEN r ELSE Ok(r.p, EUnary(op, r.val))

\* parse_binary_expression with a fault: the right operand is parsed one
\* precedence level lower, so that an operator of the same level goes on in it
parse_binary_expression_right_first(p, left) ==
  IF p.current_token.t \notin DOMAIN BinOpOf
  THEN Err(p, "InvalidExpression", "", <<>>, "Invalid binary operator")
  ELSE LET op == BinOpOf[p.current_token.t]
           precedence == current_precedence(p) - 1
           r == Call("parse_expression", Call("next_token", p, <<>>), precedence)
       IN IF ~r.ok THEN r ELSE Ok(r.p, EBinary(left, op, r.val))

\* Parser::parse_binary_expression
parse_binary_expression(p, left) ==
  IF p.current_token.t \notin DOMAIN BinOpOf
  THEN Err(p, "InvalidExpression", "", <<>>, "Invalid binary operator")
  ELSE LET op == BinOpOf[p.current_token.t]
           precedence == current_precedence(p)
           r == Call("parse_expression", Call("next_token", p, <<>>), precedence)
       IN IF ~r.ok THEN r ELSE Ok(r.p, EBinary(left, op, r.val))

\* the while loop of Parser::parse_call_expression
CallArgsLoop(p, args) ==
  IF p.current_token # Tok("RightParen") /\ p.current_token # Tok("EOF")
  THEN LET r == Call("parse_expression", p, Precedence.Lowest)
           as == Append(args, r.val)
       IN IF ~r.ok THEN r
          ELSE IF r.p.current_token = Tok("Comma")
          THEN Call("CallArgsLoop", Call("skip_newlines", Call("next_token", r.p, <<>>), <<>>), as)
          ELSE Ok(r.p, as)
  ELSE Ok(p, args)

\* Parser::parse_call_expression
parse_call_expression(p, func) ==
  LET r == Call("CallArgsLoop", Call("skip_newlines", Call("next_token", p, <<>>), <<>>), <<>>)
      e == Call("expect_token", r.p, "RightParen")
  IN IF ~r.ok THEN r ELSE IF ~e.ok THEN e ELSE Ok(e.p, ECall(func, r.val))

\* Parser::parse_index_expression
parse_index_expression(p, object) ==
  LET r == Call("parse_expression", Call("next_token", p, <<>>), Precedence.Lowest)
      e == Call("expect_token", r.p, "RightBracket")
  IN IF ~r.ok THEN r ELSE IF ~e.ok THEN e ELSE Ok(e.p, EIndex(object, r.val))

\* the Elif loop of Parser::parse_if_expression
ElifLoop(p, elif_branches) ==
  IF p.current_token = Tok("Elif")
  THEN LET c == Call("ParenExpression", Call("next_token", p, <<>>), <<>>)
           b == Call("BracedBlock", c.p, <<>>)
       IN IF ~c.ok THEN c ELSE IF ~b.ok THEN b
          ELSE Call("ElifLoop", Call("skip_newlines", b.p, <<>>), Append(elif_branches, <<c.val, b.val>>))
  ELSE Ok(p, elif_branches)

\* Parser::parse_if_expression
parse_if_expression(p) ==
  LET c == Call("ParenExpression", Call("next_token", p, <<>>), <<>>)
      t == Call("BracedBlock", c.p, <<>>)
      ei == Call("ElifLoop", Call("skip_newlines", t.p, <<>>), <<>>)
      el == Call("BracedBlock", Call("next_token", ei.p, <<>>), <<>>)
  IN IF ~c.ok THEN c ELSE IF ~t.ok THEN t ELSE IF ~ei.ok THEN ei
     ELSE IF ei.p.current_token = Tok("Else")
     THEN IF ~el.ok THEN el ELSE Ok(el.p, EIf(c.val, t.val, ei.val, Some(el.val)))
     ELSE Ok(ei.p, EIf(c.val, t.val, ei.val, None))

\* Parser::parse_lambda_expression
parse_lambda_expression(p) ==
  LET r == Call("FuncTail", Call("next_token", p, <<>>), <<>>)
  IN IF ~r.ok THEN r ELSE Ok(r.p, ELambda(r.val[1], r.val[2]))

\* Parser::parse_lambda_arrow_expression
parse_lambda_arrow_expression(p) ==
  LET q == Call("next_token", p, <<>>)
      ps == IF q.current_token = Tok("LeftParen")
            THEN LET l == Call("parse_parameter_list", Call("next_token", q, <<>>), <<>>)
                     e == Call("expect_token", l.p, "RightParen")
                 IN IF ~l.ok THEN l ELSE IF ~e.ok THEN e ELSE Ok(e.p, l.val)
            ELSE IF q.current_token.t = "Identifier"
            THEN LET v == Call("validate_identifier_internal", q, <<q.current_token.v, TRUE>>)
                 IN IF ~v.ok THEN v ELSE Ok(Call("next_token", q, <<>>), <<q.current_token.v>>)
            ELSE Err(q, "UnexpectedToken", "identifier or '('", <<>>, "")
      a == Call("expect_token", ps.p, "Arrow")
      r == Call("parse_expression", a.p, Precedence.Lowest)
  IN IF ~ps.ok THEN ps ELSE IF ~a.ok THEN a ELSE IF ~r.ok THEN r
     ELSE Ok(r.p, ELambda(ps.val, <<SReturn(r.val)>>))

\* Parser::parse_prefix
parse_prefix(p) ==
  LET tok == p.current_token
      t == tok.t
  IN CASE t = "Number" -> Ok(Call("next_token", p, <<>>), ENumber(tok.v))
       [] t = "BigInteger" -> Ok(Call("next_token", p, <<>>), EBigInteger(tok.v))
       [] t = "String" -> Ok(Call("next_token", p, <<>>), EString(tok.v))
       [] t = "Boolean" -> Ok(Call("next_token", p, <<>>), EBoolean(tok.v))
       [] t = "Null" -> Ok(Call("next_token", p, <<>>), ENull)
       [] t = "Identifier" -> Ok(Call("next_token", p, <<>>), EIdentifier(tok.v))
       [] t = "LeftParen" -> Call("parse_grouped_expression", p, <<>>)
       [] t = "LeftBracket" -> Call("parse_array_literal", p, <<>>)
       [] t = "LeftBrace" -> Call("parse_dict_literal", p, <<>>)
       [] t = "Minus" -> Call("parse_unary_expression", p, "Minus")
       [] t = "Not" -> Call("parse_unary_expression", p, "Not")
       [] t = "If" -> Call("parse_if_expression", p, <<>>)
       [] t = "Func" -> Call("parse_lambda_expression", p, <<>>)
       [] t = "Lambda" -> Call("parse_lambda_arrow_expression", p, <<>>)
       [] OTHER -> Err(p, "InvalidExpression", "", <<>>, "Unexpected token in expression")

\* Parser::parse_infix
parse_infix(p, left) ==
  IF p.current_token.t \in DOMAIN BinOpOf THEN Call("parse_binary_expression", p, left)
  ELSE IF p.current_token.t = "LeftParen" THEN Call("parse_call_expression", p, left)
  ELSE IF p.current_token.t = "LeftBracket" THEN Call("parse_index_expression", p, left)
  ELSE Ok(p, left)

\* the while loop of Parser::parse_expression
ExpressionLoop(p, precedence, left) ==
  IF precedence < current_precedence(p) /\ p.current_token.t \notin ExpressionBoundary
  THEN LET r == Call("parse_infix", p, left)
       IN IF ~r.ok THEN r ELSE Call("ExpressionLoop", r.p, <<precedence, r.val>>)
  ELSE Ok(p, left)

\* Parser::parse_expression
parse_expression(p, precedence) ==
  LET r == Call("parse_prefix", p, <<>>)
  IN IF ~r.ok THEN r ELSE Call("ExpressionLoop", r.p, <<precedence, r.val>>)

\* parse_set_statement with a fault: the whitespace flag of '[' is not read
parse_set_statement_flag_unread(p) ==
  LET q == Call("next_token", p, <<>>)
      name == q.current_token.v
      v == Call("validate_identifier", q, name)
      n == Call("next_token", q, <<>>)
      whole == Call("parse_expression", n, Precedence.Lowest)
      index == Call("parse_expression", Call("next_token", n, <<>>), Precedence.Lowest)
      value == Call("parse_expression", Call("next_token", index.p, <<>>), Precedence.Lowest)
  IN IF q.current_token.t # "Identifier"
     THEN Err(q, "UnexpectedToken", "identifier", <<>>, "")
     ELSE IF ~v.ok THEN v
     ELSE IF n.current_token = Tok("LeftBracket")
     THEN IF ~index.ok THEN index
          ELSE IF index.p.current_token # Tok("RightBracket")
          THEN Err(index.p, "UnexpectedToken", "']' for index access", <<>>, "")
          ELSE IF ~value.ok THEN value
          ELSE Ok(Call("SkipTerminator", value.p, <<>>),
                  SSetIndex(EIdentifier(name), index.val, value.val))
     ELSE IF ~whole.ok THEN whole
     ELSE Ok(Call("SkipTerminator", whole.p, <<>>), SSet(name, whole.val))

\* Parser::parse_set_statement
parse_set_statement(p) ==
  LET q == Call("next_token", p, <<>>)
      name == q.current_token.v
      v == Call("validate_identifier", q, name)
      n == Call("next_token", q, <<>>)
      whole == Call("parse_expression", n, Precedence.Lowest)
      index == Call("parse_expression", Call("next_token", n, <<>>), Precedence.Lowest)
      value == Call("parse_expression", Call("next_token", index.p, <<>>), Precedence.Lowest)
  IN IF q.current_token.t # "Identifier"
     THEN Err(q, "UnexpectedToken", "identifier", <<>>, "")
     ELSE IF ~v.ok THEN v
     ELSE IF n.current_token = Tok("LeftBracket") /\ ~n.current_had_whitespace
     THEN IF ~index.ok THEN index
          ELSE IF index.p.current_token # Tok("RightBracket")
          THEN Err(index.p, "UnexpectedToken", "']' for index access", <<>>, "")
          ELSE IF ~value.ok THEN value
          ELSE Ok(Call("SkipTerminator", value.p, <<>>),
                  SSetIndex(EIdentifier(name), index.val, value.val))
     ELSE IF ~whole.ok THEN whole
     ELSE Ok(Call("SkipTerminator", whole.p, <<>>), SSet(name, whole.val))

\* Parser::parse_func_definition
parse_func_definition(p) ==
  LET q == Call("next_token", p, <<>>)
      name == q.current_token.v
      v == Call("validate_identifier", q, name)
      r == Call("FuncTail", Call("next_token", q, <<>>), <<>>)
  IN IF q.current_token.t # "Identifier"
     THEN Err(q, "UnexpectedToken", "identifier", <<>>, "")
     ELSE IF ~v.ok THEN v
     ELSE IF ~r.ok THEN r
     ELSE Ok(r.p, SFuncDef(name, r.val[1], r.val[2]))

\* Parser::parse_generator_definition
parse_generator_definition(p) ==
  LET q == Call("next_token", p, <<>>)
      name == q.current_token.v
      r == Call("FuncTail", Call("next_token", q, <<>>), <<>>)
  IN IF q.current_token.t # "Identifier"
     THEN Err(q, "UnexpectedToken", "identifier", <<>>, "")
     ELSE IF ~r.ok THEN r
     ELSE Ok(r.p, SGeneratorDef(name, r.val[1], r.val[2]))

\* Parser::parse_lazy_definition
parse_lazy_definition(p) ==
  LET q == Call("next_token", p, <<>>)
      name == q.current_token.v
      r == Call("ParenExpression", Call("next_token", q, <<>>), <<>>)
  IN IF q.current_token.t # "Identifier"
     THEN Err(q, "UnexpectedToken", "identifier", <<>>, "")
     ELSE IF ~r.ok THEN r
     ELSE Ok(Call("SkipTerminator", r.p, <<>>), SLazyDef(name, r.val))

\* the common body of Parser::parse_return_statement and parse_yield_statement
ReturnOrYield(p, kind) ==
  LET q == Call("next_token", p, <<>>)
      r == Call("parse_expression", q, Precedence.Lowest)
  IN IF q.current_token = Tok("Newline") \/ q.current_token = Tok("RightBrace")
     THEN Ok(Call("SkipTerminator", q, <<>>), [kind |-> kind, expr |-> ENull])
     ELSE IF ~r.ok THEN r
     ELSE Ok(Call("SkipTerminator", r.p, <<>>), [kind |-> kind, expr |-> r.val])

\* Parser::parse_return_statement
parse_return_statement(p) == Call("ReturnOrYield", p, "Return")

\* Parser::parse_yield_statement
parse_yield_statement(p) == Call("ReturnOrYield", p, "Yield")

\* parse_break_statement with a fault: the Break token is not consumed
parse_break_statement_unconsumed(p) == Ok(p, SBreak)

\* Parser::parse_break_statement
parse_break_statement(p) == Ok(Call("SkipTerminator", Call("next_token", p, <<>>), <<>>), SBreak)

\* Parser::parse_continue_statement
parse_continue_statement(p) == Ok(Call("SkipTerminator", Call("next_token", p, <<>>), <<>>), SContinue)

\* Parser::parse_while_statement
parse_while_statement(p) ==
  LET c == Call("ParenExpression", Call("next_token", p, <<>>), <<>>)
      b == Call("BracedBlock", c.p, <<>>)
  IN IF ~c.ok THEN c ELSE IF ~b.ok THEN b ELSE Ok(b.p, SWhile(c.val, b.val))

\* the tail  expect In; parse_expression; block  of both For forms: its value
\* is <<iterable, body>>
ForTail(p) ==
  LET a == Call("expect_token", p, "In")
      it == Call("parse_expression", a.p, Precedence.Lowest)
      b == Call("BracedBlock", it.p, <<>>)
  IN IF ~a.ok THEN a ELSE IF ~it.ok THEN it ELSE IF ~b.ok THEN b
     ELSE Ok(b.p, <<it.val, b.val>>)

\* parse_for_statement with a fault: the two variables of the indexed form are
\* exchanged
parse_for_statement_exchanged(p) ==
  LET q == Call("next_token", p, <<>>)
      first_var == q.current_token.v
      n == Call("next_token", q, <<>>)
      s == Call("next_token", n, <<>>)
      second_var == s.current_token.v
      indexed == Call("ForTail", Call("next_token", s, <<>>), <<>>)
      simple == Call("ForTail", n, <<>>)
  IN IF q.current_token.t # "Identifier"
     THEN Err(q, "UnexpectedToken", "identifier", <<>>, "")
     ELSE IF n.current_token = Tok("Comma")
     THEN IF s.current_token.t # "Identifier"
          THEN Err(s, "UnexpectedToken", "identifier", <<>>, "")
          ELSE IF ~indexed.ok THEN indexed
          ELSE Ok(indexed.p,
                  SForIndexed(second_var, first_var, indexed.val[1], indexed.val[2]))
     ELSE IF ~simple.ok THEN simple
     ELSE Ok(simple.p, SFor(first_var, simple.val[1], simple.val[2]))

\* Parser::parse_for_statement
parse_for_statement(p) ==
  LET q == Call("next_token", p, <<>>)
      first_var == q.current_token.v
      n == Call("next_token", q, <<>>)
      s == Call("next_token", n, <<>>)
      second_var == s.current_token.v
      indexed == Call("ForTail", Call("next_token", s, <<>>), <<>>)
      simple == Call("ForTail", n, <<>>)
  IN IF q.current_token.t # "Identifier"
     THEN Err(q, "UnexpectedToken", "identifier", <<>>, "")
     ELSE IF n.current_token = Tok("Comma")
     THEN IF s.current_token.t # "Identifier"
          THEN Err(s, "UnexpectedToken", "identifier", <<>>, "")
          ELSE IF ~indexed.ok THEN indexed
          ELSE Ok(indexed.p,
                  SForIndexed(first_var, second_var, indexed.val[1], indexed.val[2]))
     ELSE IF ~simple.ok THEN simple
     ELSE Ok(simple.p, SFor(first_var, simple.val[1], simple.val[2]))

\* the body loop of a Case block in Parser::parse_switch_statement
CaseBodyLoop(p, body) ==
  IF p.current_token.t \notin {"Case", "Default", "RightBrace", "EOF"}
  THEN LET r == Call("parse_statement", p, <<>>)
       IN IF ~r.ok THEN r ELSE Call("CaseBodyLoop", Call("skip_newlines", r.p, <<>>), Append(body, r.val))
  ELSE Ok(p, body)

\* the body loop of the Default block in Parser::parse_switch_statement
DefaultBodyLoop(p, body) ==
  IF p.current_token.t \notin {"RightBrace", "EOF"}
  THEN LET r == Call("parse_statement", p, <<>>)
       IN IF ~r.ok THEN r ELSE Call("DefaultBodyLoop", Call("skip_newlines", r.p, <<>>), Append(body, r.val))
  ELSE Ok(p, body)

\* the loop with a fault: a case is put before the cases already parsed
SwitchLoop_case_put_first(p, cases) ==
  IF p.current_token.t \notin {"RightBrace", "EOF"}
  THEN IF p.current_token = Tok("Case")
       THEN LET e == Call("parse_expression", Call("next_token", p, <<>>), Precedence.Lowest)
                c == Call("expect_token", e.p, "Colon")
                b == Call("CaseBodyLoop", Call("skip_newlines", c.p, <<>>), <<>>)
            IN IF ~e.ok THEN e ELSE IF ~c.ok THEN c ELSE IF ~b.ok THEN b
               ELSE Call("SwitchLoop", b.p, <<<<e.val, b.val>>>> \o cases)
       ELSE IF p.current_token = Tok("Default")
       THEN LET c == Call("expect_token", Call("next_token", p, <<>>), "Colon")
                b == Call("DefaultBodyLoop", Call("skip_newlines", c.p, <<>>), <<>>)
            IN IF ~c.ok THEN c ELSE IF ~b.ok THEN b
               ELSE Ok(b.p, <<cases, Some(b.val)>>)
       ELSE Call("SwitchLoop", Call("next_token", p, <<>>), cases)
  ELSE Ok(p, <<cases, None>>)

\* the loop with a fault: what is no Case or Default is parsed as a statement
\* and dropped
SwitchLoop_statement_parsed(p, cases) ==
  IF p.current_token.t \notin {"RightBrace", "EOF"}
  THEN IF p.current_token = Tok("Case")
       THEN LET e == Call("parse_expression", Call("next_token", p, <<>>), Precedence.Lowest)
                c == Call("expect_token", e.p, "Colon")
                b == Call("CaseBodyLoop", Call("skip_newlines", c.p, <<>>), <<>>)
            IN IF ~e.ok THEN e ELSE IF ~c.ok THEN c ELSE IF ~b.ok THEN b
               ELSE Call("SwitchLoop", b.p, Append(cases, <<e.val, b.val>>))
       ELSE IF p.current_token = Tok("Default")
       THEN LET c == Call("expect_token", Call("next_token", p, <<>>), "Colon")
                b == Call("DefaultBodyLoop", Call("skip_newlines", c.p, <<>>), <<>>)
            IN IF ~c.ok THEN c ELSE IF ~b.ok THEN b
               ELSE Ok(b.p, <<cases, Some(b.val)>>)
       ELSE LET r == Call("parse_statement", p, <<>>)
            IN IF ~r.ok THEN r
               ELSE Call("SwitchLoop", Call("skip_newlines", r.p, <<>>), cases)
  ELSE Ok(p, <<cases, None>>)

\* the while loop of Parser::parse_switch_statement: its value is
\* <<cases, default>>
SwitchLoop(p, cases) ==
  IF p.current_token.t \notin {"RightBrace", "EOF"}
  THEN IF p.current_token = Tok("Case")
       THEN LET e == Call("parse_expression", Call("next_token", p, <<>>), Precedence.Lowest)
                c == Call("expect_token", e.p, "Colon")
                b == Call("CaseBodyLoop", Call("skip_newlines", c.p, <<>>), <<>>)
            IN IF ~e.ok THEN e ELSE IF ~c.ok THEN c ELSE IF ~b.ok THEN b
               ELSE Call("SwitchLoop", b.p, Append(cases, <<e.val, b.val>>))
       ELSE IF p.current_token = Tok("Default")
       THEN LET c == Call("expect_token", Call("next_token", p, <<>>), "Colon")
                b == Call("DefaultBodyLoop", Call("skip_newlines", c.p, <<>>), <<>>)
            IN IF ~c.ok THEN c ELSE IF ~b.ok THEN b
               ELSE Ok(b.p, <<cases, Some(b.val)>>)
       ELSE Call("SwitchLoop", Call("next_token", p, <<>>), cases)
  ELSE Ok(p, <<cases, None>>)

\* Parser::parse_switch_statement
parse_switch_statement(p) ==
  LET e == Call("ParenExpression", Call("next_token", p, <<>>), <<>>)
      a == Call("expect_token", Call("skip_newlines", e.p, <<>>), "LeftBrace")
      l == Call("SwitchLoop", Call("skip_newlines", a.p, <<>>), <<>>)
      c == Call("expect_token", l.p, "RightBrace")
  IN IF ~e.ok THEN e ELSE IF ~a.ok THEN a ELSE IF ~l.ok THEN l ELSE IF ~c.ok THEN c
     ELSE Ok(c.p, SSwitch(e.val, l.val[1], l.val[2]))

\* the alias clause of Parser::parse_import_statement, entered after the name
\* is consumed: its value is the Option<String> alias
ImportAlias(p) ==
  IF p.current_token = Tok("As")
  THEN LET q == Call("next_token", p, <<>>)
       IN IF q.current_token.t = "Identifier"
          THEN Ok(Call("next_token", q, <<>>), Some(q.current_token.v))
          ELSE Ok(q, None)
  ELSE Ok(p, None)

\* the loop with a fault: only an alias that is written is pushed
ImportListLoop_alias_pushed_if_written(p, names, aliases) ==
  IF p.current_token.t \notin {"RightBrace", "EOF"}
  THEN IF p.current_token.t # "Identifier"
       THEN Err(p, "UnexpectedToken", "identifier", <<>>, "")
       ELSE LET a == Call("ImportAlias", Call("next_token", p, <<>>), <<>>)
                ns == Append(names, p.current_token.v)
                as == IF a.val.some THEN Append(aliases, a.val) ELSE aliases
            IN IF a.p.current_token = Tok("Comma")
               THEN Call("ImportListLoop", Call("skip_newlines", Call("next_token", a.p, <<>>), <<>>), <<ns, as>>)
               ELSE Ok(a.p, <<ns, as>>)
  ELSE Ok(p, <<names, aliases>>)

\* the while loop of the braced form of Parser::parse_import_statement: its
\* value is <<names, aliases>>
ImportListLoop(p, names, aliases) ==
  IF p.current_token.t \notin {"RightBrace", "EOF"}
  THEN IF p.current_token.t # "Identifier"
       THEN Err(p, "UnexpectedToken", "identifier", <<>>, "")
       ELSE LET a == Call("ImportAlias", Call("next_token", p, <<>>), <<>>)
                ns == Append(names, p.current_token.v)
                as == Append(aliases, a.val)
            IN IF a.p.current_token = Tok("Comma")
               THEN Call("ImportListLoop", Call("skip_newlines", Call("next_token", a.p, <<>>), <<>>), <<ns, as>>)
               ELSE Ok(a.p, <<ns, as>>)
  ELSE Ok(p, <<names, aliases>>)

\* Parser::parse_import_statement
parse_import_statement(p) ==
  LET q == Call("next_token", p, <<>>)
      braced == LET l == Call("ImportListLoop", Call("skip_newlines", Call("next_token", q, <<>>), <<>>), <<<<>>, <<>>>>)
                    e == Call("expect_token", l.p, "RightBrace")
                IN IF ~l.ok THEN l ELSE IF ~e.ok THEN e ELSE Ok(e.p, l.val)
      single == IF q.current_token.t # "Identifier"
                THEN Err(q, "UnexpectedToken", "identifier", <<>>, "")
                ELSE LET a == Call("ImportAlias", Call("next_token", q, <<>>), <<>>)
                     IN Ok(a.p, <<<<q.current_token.v>>, <<a.val>>>>)
      na == IF q.current_token = Tok("LeftBrace") THEN braced ELSE single
      f == Call("expect_token", na.p, "From")
  IN IF ~na.ok THEN na ELSE IF ~f.ok THEN f
     ELSE IF f.p.current_token.t # "String"
     THEN Err(f.p, "UnexpectedToken", "string", <<>>, "")
     ELSE Ok(Call("SkipTerminator", Call("next_token", f.p, <<>>), <<>>),
             SImport(na.val[1], f.p.current_token.v, na.val[2]))

\* Parser::parse_export_statement
parse_export_statement(p) ==
  LET q == Call("next_token", p, <<>>)
  IN IF q.current_token.t # "Identifier"
     THEN Err(q, "UnexpectedToken", "identifier", <<>>, "")
     ELSE Ok(Call("SkipTerminator", Call("next_token", q, <<>>), <<>>), SExport(q.current_token.v))

\* Parser::parse_throw_statement
parse_throw_statement(p) ==
  LET r == Call("parse_expression", Call("next_token", p, <<>>), Precedence.Lowest)
  IN IF ~r.ok THEN r ELSE Ok(Call("SkipTerminator", r.p, <<>>), SThrow(r.val))

\* Parser::parse_expression_statement
parse_expression_statement(p) ==
  LET r == Call("parse_expression", p, Precedence.Lowest)
  IN IF ~r.ok THEN r ELSE Ok(Call("SkipTerminator", r.p, <<>>), SExpression(r.val))

\* Parser::parse_statement
parse_statement(p) ==
  LET t == p.current_token.t
  IN CASE t = "Set" -> Call("parse_set_statement", p, <<>>)
       [] t = "Func" -> Call("parse_func_definition", p, <<>>)
       [] t = "Generator" -> Call("parse_generator_definition", p, <<>>)
       [] t = "Lazy" -> Call("parse_lazy_definition", p, <<>>)
       [] t = "Return" -> Call("parse_return_statement", p, <<>>)
       [] t = "Yield" -> Call("parse_yield_statement", p, <<>>)
       [] t = "Break" -> Call("parse_break_statement", p, <<>>)
       [] t = "Continue" -> Call("parse_continue_statement", p, <<>>)
       [] t = "While" -> Call("parse_while_statement", p, <<>>)
       [] t = "For" -> Call("parse_for_statement", p, <<>>)
       [] t = "Switch" -> Call("parse_switch_statement", p, <<>>)
       [] t = "Import" -> Call("parse_import_statement", p, <<>>)
       [] t = "Export" -> Call("parse_export_statement", p, <<>>)
       [] t = "Throw" -> Call("parse_throw_statement", p, <<>>)
       [] OTHER -> Call("parse_expression_statement", p, <<>>)

\* the call of the parser method named fn
Call(fn, p, a) ==
  CASE fn = "next_token" -> next_token(p)
    [] fn = "skip_newlines" -> skip_newlines(p)
    [] fn = "expect_token" -> expect_token(p, a)
    [] fn = "SkipTerminator" -> SkipTerminator(p)
    [] fn = "validate_identifier_internal" -> validate_identifier_internal(p, a[1], a[2])
    [] fn = "validate_identifier" -> validate_identifier(p, a)
    [] fn = "ParameterLoop" -> ParameterLoop(p, a)
    [] fn = "parse_parameter_list" -> parse_parameter_list(p)
    [] fn = "BlockLoop" -> BlockLoop(p, a)
    [] fn = "parse_block" -> parse_block(p)
    [] fn = "BracedBlock" -> BracedBlock(p)
    [] fn = "ParenExpression" -> ParenExpression(p)
    [] fn = "FuncTail" -> FuncTail(p)
    [] fn = "parse_grouped_expression" -> parse_grouped_expression(p)
    [] fn = "ArrayLoop" -> ArrayLoop(p, a)
    [] fn = "parse_array_literal" -> parse_array_literal(p)
    [] fn = "DictLoop" -> DictLoop(p, a)
    [] fn = "parse_dict_literal" -> parse_dict_literal(p)
    [] fn = "parse_unary_expression" -> parse_unary_expression(p, a)
    [] fn = "parse_binary_expression" -> parse_binary_expression(p, a)
    [] fn = "CallArgsLoop" -> CallArgsLoop(p, a)
    [] fn = "parse_call_expression" -> parse_call_expression(p, a)
    [] fn = "parse_index_expression" -> parse_index_expression(p, a)
    [] fn = "ElifLoop" -> ElifLoop(p, a)
    [] fn = "parse_if_expression" -> parse_if_expression(p)
    [] fn = "parse_lambda_expression" -> parse_lambda_expression(p)
    [] fn = "parse_lambda_arrow_expression" -> parse_lambda_arrow_expression(p)
    [] fn = "parse_prefix" -> parse_prefix(p)
    [] fn = "parse_infix" -> parse_infix(p, a)
    [] fn = "ExpressionLoop" -> ExpressionLoop(p, a[1], a[2])
    [] fn = "parse_expression" -> parse_expression(p, a)
    [] fn = "parse_set_statement" -> parse_set_statement(p)
    [] fn = "parse_func_definition" -> parse_func_definition(p)
    [] fn = "parse_generator_definition" -> parse_generator_definition(p)
    [] fn = "parse_lazy_definition" -> parse_lazy_definition(p)
    [] fn = "ReturnOrYield" -> ReturnOrYield(p, a)
    [] fn = "parse_return_statement" -> parse_return_statement(p)
    [] fn = "parse_yield_statement" -> parse_yield_statement(p)
    [] fn = "parse_break_statement" -> parse_break_statement(p)
    [] fn = "parse_continue_statement" -> parse_continue_statement(p)
    [] fn = "parse_while_statement" -> parse_while_statement(p)
    [] fn = "ForTail" -> ForTail(p)
    [] fn = "parse_for_statement" -> parse_for_statement(p)
    [] fn = "CaseBodyLoop" -> CaseBodyLoop(p, a)
    [] fn = "DefaultBodyLoop" -> DefaultBodyLoop(p, a)
    [] fn = "SwitchLoop" -> SwitchLoop(p, a)
    [] fn = "parse_switch_statement" -> parse_switch_statement(p)
    [] fn = "ImportAlias" -> ImportAlias(p)
    [] fn = "ImportListLoop" -> ImportListLoop(p, a[1], a[2])
    [] fn = "parse_import_statement" -> parse_import_statement(p)
    [] fn = "parse_export_statement" -> parse_export_statement(p)
    [] fn = "parse_throw_statement" -> parse_throw_statement(p)
    [] fn = "parse_expression_statement" -> parse_expression_statement(p)
    [] fn = "parse_statement" -> parse_statement(p)

(***************************************************************************)
(* Symbol extraction (src/src/symbols.rs).  A SymbolInfo is modelled by    *)
(* its name and the constructor word of its detail text; the placeholder   *)
(* ranges and the documentation text are left out.                         *)
(***************************************************************************)
\* SymbolTable::new
SymbolTableNew == [variables |-> <<>>, functions |-> <<>>]

RECURSIVE extract_symbols_from_stmt(_, _), extract_symbols_from_expr(_, _),
          ExtractAll(_, _), ExtractBranches(_, _)

\* the loop  for stmt in body { extract_symbols_from_stmt(stmt, table, text) }
ExtractAll(stmts, table) ==
  IF stmts = <<>> THEN table
  ELSE ExtractAll(Tail(stmts), extract_symbols_from_stmt(Head(stmts), table))

\* the loop over the (expression, body) pairs of switch cases and elif branches
ExtractBranches(branches, table) ==
  IF branches = <<>> THEN table
  ELSE ExtractBranches(Tail(branches), ExtractAll(Head(branches)[2], table))

\* extract_symbols_from_stmt
extract_symbols_from_stmt(stmt, table) ==
  CASE stmt.kind = "Set" ->
         [table EXCEPT !.variables = Append(@, [name |-> stmt.name, detail |-> "Variable"])]
    [] stmt.kind = "FuncDef" ->
         ExtractAll(stmt.body,
           [table EXCEPT !.functions = Append(@, [name |-> stmt.name, detail |-> "Function"])])
    [] stmt.kind = "GeneratorDef" ->
         ExtractAll(stmt.body,
           [table EXCEPT !.functions = Append(@, [name |-> stmt.name, detail |-> "Generator"])])
    [] stmt.kind = "LazyDef" ->
         [table EXCEPT !.variables = Append(@, [name |-> stmt.name, detail |-> "Lazy"])]
    [] stmt.kind \in {"While", "For", "ForIndexed"} -> ExtractAll(stmt.body, table)
    [] stmt.kind = "Switch" ->
         LET t == ExtractBranches(stmt.cases, table)
         IN IF stmt.default.some THEN ExtractAll(stmt.default.val, t) ELSE t
    [] stmt.kind = "Expression" -> extract_symbols_from_expr(stmt.expr, table)
    [] OTHER -> table

\* extract_symbols_from_expr
extract_symbols_from_expr(expr, table) ==
  CASE expr.kind = "Lambda" -> ExtractAll(expr.body, table)
    [] expr.kind = "If" ->
         LET t == ExtractBranches(expr.elif_branches, ExtractAll(expr.then_branch, table))
         IN IF expr.else_branch.some THEN ExtractAll(expr.else_branch.val, t) ELSE t
    [] OTHER -> table

\* SymbolTable::from_ast
from_ast(ast) == ExtractAll(ast, SymbolTableNew)

(***************************************************************************)
(* Parser::parse and its ParsedDocument                                    *)
(***************************************************************************)
\* impl Display for ParseError: the message, as its position and its wording
Display(e) ==
  [line |-> e.line, column |-> e.column,
   wording |->
     CASE e.kind = "UnexpectedToken" -> <<"Expected ", e.expected, ", found ", e.found>>
       [] e.kind = "InvalidExpression" -> <<"Invalid expression - ", e.message>>
       [] e.kind = "InvalidIdentifier" ->
            <<"Invalid identifier '", e.name, "' - ", e.message>>]

\* the Ok arm of Parser::parse
ParsedDocumentOk(input_text, ast) ==
  [text |-> input_text, ast |-> ast, symbols |-> from_ast(ast), errors |-> <<>>]

\* the Err arm of Parser::parse with a fault: the statements collected before
\* the error, and their symbols, are kept
ParsedDocumentErrKeepingAst(input_text, e, p, ast) ==
  [text |-> input_text, ast |-> ast, symbols |-> from_ast(ast),
   errors |-> <<[message |-> Display(e),
                 line |-> p.current_line, column |-> p.current_column]>>]

\* the Err arm of Parser::parse; p is the parser as the error left it and ast
\* the statements parse_program had collected, which are dropped
ParsedDocumentErr(input_text, e, p, ast) ==
  [text |-> input_text, ast |-> <<>>, symbols |-> SymbolTableNew,
   errors |-> <<[message |-> Display(e),
                 line |-> p.current_line, column |-> p.current_column]>>]

\* the while loop of Parser::parse_program: Ok with the program, or the first Err
RECURSIVE ProgramLoop(_, _)
ProgramLoop(p, stmts) ==
  IF p.current_token # Tok("EOF")
  THEN LET r == Call("parse_statement", p, <<>>)
       IN IF ~r.ok THEN r ELSE ProgramLoop(Call("skip_newlines", r.p, <<>>), Append(stmts, r.val))
  ELSE Ok(p, stmts)

\* Parser::parse_program
parse_program(p) == ProgramLoop(Call("skip_newlines", p, <<>>), <<>>)

\* Parser::parse on a fresh parser: Parser::new(text).parse()
ParseMatch(input, r) ==
  IF r.ok THEN ParsedDocumentOk(input, r.val)
  ELSE ParsedDocumentErr(input, r.err, r.p, <<>>)
parse(input) == ParseMatch(input, parse_program(ParserNew(input)))

(***************************************************************************)
(* Diagnostics (src/src/diagnostics.rs)                                    *)
(***************************************************************************)
\* usize::saturating_sub
saturating_sub(a, b) == IF a >= b THEN a - b ELSE 0

\* char::to_uppercase, and str::to_uppercase
UpperAlphabet ==
  <<"A","B","C","D","E","F","G","H","I","J","K","L","M",
    "N","O","P","Q","R","S","T","U","V","W","X","Y","Z">>
LowerAlphabet ==
  <<"a","b","c","d","e","f","g","h","i","j","k","l","m",
    "n","o","p","q","r","s","t","u","v","w","x","y","z">>
CharToUppercase(c) ==
  IF c \in LowerLetters
  THEN UpperAlphabet[CHOOSE i \in 1..Len(LowerAlphabet) : LowerAlphabet[i] = c]
  ELSE c
suggest_upper_snake_case(name) == [i \in 1..Len(name) |-> CharToUppercase(name[i])]

\* DiagnosticEngine::is_valid_aether_name
is_valid_aether_name(name) ==
  /\ name # <<>>
  /\ \A i \in 1..Len(name) : name[i] \in UpperLetters \cup {"_"} \cup AsciiDigits
  /\ name[1] \notin AsciiDigits

\* a string literal of the source as the sequence of its characters
Chars(str) == [i \in 1..Len(str) |-> SubSeq(str, i, i)]

\* str::contains
Contains(haystack, needle) ==
  \E i \in 1..(Len(haystack) - Len(needle) + 1) :
    SubSeq(haystack, i, i + Len(needle) - 1) = needle

\* char::escape_debug as the Debug of a str (quote '"') or of a char (quote "'")
\* applies it to the characters of the model
EscapeDebug(c, quote) ==
  CASE c = quote -> <<"\\", c>>
    [] c = "\\" -> <<"\\", "\\">>
    [] c = LF -> <<"\\", "n">>
    [] c = TAB -> <<"\\", "t">>
    [] c = CR -> <<"\\", "r">>
    [] c = NUL -> <<"\\", "0">>
    [] OTHER -> <<c>>
RECURSIVE EscapeDebugAll(_, _)
EscapeDebugAll(s, quote) ==
  IF s = <<>> THEN <<>> ELSE EscapeDebug(Head(s), quote) \o EscapeDebugAll(Tail(s), quote)

\* f64's Debug of the value a numeral denotes: with an exponent from 1e16 on
\* and below 1e-4, else plain with ".0" when the value is whole
DebugF64(val) ==
  LET point == {i \in 1..Len(val) : val[i] = "."}
      d == IF point = {} THEN Len(val) + 1 ELSE CHOOSE i \in point : TRUE
      ip == SubSeq(val, 1, d - 1)
      fp == SubSeq(val, d + 1, Len(val))
      zeros == Len(fp) - Len(StripLeadingZeros(fp))
      scientific(digits, exponent) ==
        <<Head(digits)>> \o (IF Len(digits) > 1 THEN <<".">> \o Tail(digits) ELSE <<>>)
          \o <<"e">> \o Chars(ToString(exponent))
  IN IF val = <<"i", "n", "f">> THEN val
     ELSE IF Len(ip) >= 17 THEN scientific(StripTrailingZeros(ip \o fp), Len(ip) - 1)
     ELSE IF ip = <<"0">> /\ fp # <<>> /\ zeros >= 4
     THEN scientific(StripLeadingZeros(fp), -(zeros + 1))
     ELSE ip \o <<".">> \o (IF fp = <<>> THEN <<"0">> ELSE fp)

\* #[derive(Debug)] of Token, as {:?} prints a token
DebugToken(tok) ==
  CASE tok.t \in {"Identifier", "String", "BigInteger"} ->
         Chars(tok.t) \o <<"(", "\"">> \o EscapeDebugAll(tok.v, "\"") \o <<"\"", ")">>
    [] tok.t = "Number" -> Chars("Number(") \o DebugF64(tok.v) \o <<")">>
    [] tok.t = "Boolean" -> Chars("Boolean(") \o Chars(tok.v[1]) \o <<")">>
    [] tok.t = "Illegal" ->
         Chars("Illegal('") \o EscapeDebugAll(tok.v, "'") \o <<"'", ")">>
    [] OTHER -> Chars(tok.t)

\* ParseError::to_string: the text that Display writes, from the position and
\* wording Display(e) holds
to_string(d) ==
  Chars("Parse error at line ") \o Chars(ToString(d.line))
    \o Chars(", column ") \o Chars(ToString(d.column)) \o Chars(": ")
    \o (CASE d.wording[1] = "Expected " ->
               Chars(d.wording[1]) \o Chars(d.wording[2]) \o Chars(d.wording[3])
                 \o DebugToken(d.wording[4])
           [] d.wording[1] = "Invalid expression - " ->
               Chars(d.wording[1]) \o Chars(d.wording[2])
           [] d.wording[1] = "Invalid identifier '" ->
               Chars(d.wording[1]) \o d.wording[2] \o Chars(d.wording[3])
                 \o d.wording[4])

\* error_code_from_message with a fault: "Invalid expression" is tested before
\* "Unexpected token"
error_code_from_message_expression_first(message) ==
  IF Contains(message, Chars("UPPER_SNAKE_CASE")) THEN "E001"
  ELSE IF Contains(message, Chars("Invalid expression")) THEN "E004"
  ELSE IF Contains(message, Chars("Unexpected token")) THEN "E002"
  ELSE IF Contains(message, Chars("Expected")) THEN "E003"
  ELSE "E000"

\* DiagnosticEngine::error_code_from_message
error_code_from_message(message) ==
  IF Contains(message, Chars("UPPER_SNAKE_CASE")) THEN "E001"
  ELSE IF Contains(message, Chars("Unexpected token")) THEN "E002"
  ELSE IF Contains(message, Chars("Expected")) THEN "E003"
  ELSE IF Contains(message, Chars("Invalid expression")) THEN "E004"
  ELSE "E000"

\* DiagnosticEngine::parse_errors_to_diagnostics: the severity, code, source,
\* message and start of the range of each diagnostic
parse_errors_to_diagnostics(errors) ==
  [i \in 1..Len(errors) |->
     [severity |-> "ERROR", code |-> error_code_from_message(to_string(errors[i].message)),
      source |-> "aether-parser", message |-> errors[i].message,
      line |-> saturating_sub(errors[i].line, 1),
      character |-> saturating_sub(errors[i].column, 1)]]

\* the warning check_naming_convention pushes for a name; line and column are
\* the scanner's before the token was scanned
NamingWarning(name, line, column) ==
  [severity |-> "WARNING", source |-> "aether-lint", code |-> "W001",
   name |-> name, suggestion |-> suggest_upper_snake_case(name),
   line |-> saturating_sub(line, 1),
   character |-> saturating_sub(column, 1),
   end_character |-> saturating_sub(column, 1) + ByteLen(name)]

\* the loop of DiagnosticEngine::check_naming_convention
RECURSIVE NamingLoop(_, _, _)
NamingLoop(l, prev_token, diags) ==
  LET r == LexerNextToken(l)
  IN IF r.tok = Tok("EOF") THEN diags
     ELSE NamingLoop(r.l, r.tok,
            IF /\ r.tok.t = "Identifier"
               /\ prev_token.t \in {"Set", "Func", "Generator", "Lazy"}
               /\ ~is_valid_aether_name(r.tok.v)
            THEN Append(diags, NamingWarning(r.tok.v, l.line, l.column))
            ELSE diags)

\* DiagnosticEngine::check_naming_convention
check_naming_convention(input) == NamingLoop(LexerNew(input), Tok("EOF"), <<>>)

\* DiagnosticEngine::analyze with a fault: the naming lint runs whatever the
\* parse gave
analyze_lint_always(parsed, input) ==
  parse_errors_to_diagnostics(parsed.errors) \o check_naming_convention(input)

\* DiagnosticEngine::analyze
analyze(parsed, input) ==
  parse_errors_to_diagnostics(parsed.errors)
    \o (IF parsed.errors = <<>> THEN check_naming_convention(input) ELSE <<>>)

(***************************************************************************)
(* The backend (src/src/backend.rs): the document cache and the handlers   *)
(* of document events and of the rename request, each handled as a whole.  *)
(***************************************************************************)
\* DashMap::new, insert with a fault (an entry that is there is kept), insert
\* and remove
DashMapNew == [u \in {} |-> None]
DashMapInsert_if_vacant(map, key, value) ==
  [k \in DOMAIN map \cup {key} |-> IF k \in DOMAIN map THEN map[k] ELSE value]
DashMapInsert(map, key, value) ==
  [k \in DOMAIN map \cup {key} |-> IF k = key THEN value ELSE map[k]]
DashMapRemove(map, key) == [k \in DOMAIN map \ {key} |-> map[k]]

\* SymbolTable::rename_symbol with a fault: an edit is made for any new name
rename_symbol_editing(table, position, new_name, uri) ==
  Some([uri |-> uri, position |-> position, new_text |-> new_name])

\* SymbolTable::rename_symbol
rename_symbol(table, position, new_name, uri) == None

\* is_valid_aether_name of backend.rs
backend_is_valid_aether_name(name) ==
  /\ name # <<>>
  /\ \A i \in 1..Len(name) : name[i] \in UpperLetters \cup {"_"} \cup AsciiDigits
  /\ name[1] \notin AsciiDigits

\* AetherLspBackend::rename: the Option<WorkspaceEdit> returned
rename(map, uri, position, new_name) ==
  IF uri \in DOMAIN map
  THEN IF ~backend_is_valid_aether_name(new_name) THEN None
       ELSE LET edit == rename_symbol(map[uri].symbols, position, new_name, uri)
            IN IF edit.some THEN edit ELSE None
  ELSE None

(***************************************************************************)
(* The state machine: Parser::new, then Parser::parse one statement of     *)
(* parse_program at a time, then the ParsedDocument.                       *)
(***************************************************************************)
\* Parser::new(text)
New ==
  /\ pc = "start"
  /\ parser' = ParserNew(text)
  /\ pc' = "new"
  /\ UNCHANGED <<text, statements, error, doc, diagnostics, scanVars, serverVars>>

\* parse_program up to its loop: the statements vector and skip_newlines
ProgramEnter ==
  /\ pc = "new"
  /\ parser' = Call("skip_newlines", parser, <<>>)
  /\ statements' = <<>>
  /\ pc' = "loop"
  /\ UNCHANGED <<text, error, doc, diagnostics, scanVars, serverVars>>

\* one iteration of the loop of parse_program whose parse_statement is Ok
StatementOk ==
  /\ pc = "loop"
  /\ parser.current_token # Tok("EOF")
  /\ LET r == Call("parse_statement", parser, <<>>)
     IN /\ r.ok
        /\ statements' = Append(statements, r.val)
        /\ parser' = Call("skip_newlines", r.p, <<>>)
  /\ UNCHANGED <<text, pc, error, doc, diagnostics, scanVars, serverVars>>

\* the failing iteration with a fault: the error is noted, one token is skipped
\* and the loop goes on
StatementErrResuming ==
  /\ pc = "loop"
  /\ parser.current_token # Tok("EOF")
  /\ LET r == Call("parse_statement", parser, <<>>)
     IN /\ ~r.ok
        /\ error' = Some(r.err)
        /\ parser' = Call("next_token", r.p, <<>>)
  /\ UNCHANGED <<text, pc, statements, doc, diagnostics, scanVars, serverVars>>

\* the iteration of the loop of parse_program whose parse_statement is Err:
\* the ? operator returns the error
StatementErr ==
  /\ pc = "loop"
  /\ parser.current_token # Tok("EOF")
  /\ LET r == Call("parse_statement", parser, <<>>)
     IN /\ ~r.ok
        /\ error' = Some(r.err)
        /\ parser' = r.p
  /\ pc' = "err"
  /\ UNCHANGED <<text, statements, doc, diagnostics, scanVars, serverVars>>

\* parse_program returns Ok(statements) and parse builds the document
ReturnOk ==
  /\ pc = "loop"
  /\ parser.current_token = Tok("EOF")
  /\ doc' = Some(ParsedDocumentOk(text, statements))
  /\ pc' = "done"
  /\ UNCHANGED <<text, parser, statements, error, diagnostics, scanVars, serverVars>>

\* parse builds the document of a failed parse_program
ReturnErr ==
  /\ pc = "err"
  /\ doc' = Some(ParsedDocumentErr(text, error.val, parser, statements))
  /\ pc' = "done"
  /\ UNCHANGED <<text, parser, statements, error, diagnostics, scanVars, serverVars>>

\* DiagnosticEngine::analyze on the document parse returned, as
\* parse_and_diagnose calls it
Analyze ==
  /\ pc = "done"
  /\ ~diagnostics.some
  /\ diagnostics' = Some(analyze(doc.val, text))
  /\ UNCHANGED <<text, pc, parser, statements, error, doc, scanVars, serverVars>>

Next ==
  New \/ ProgramEnter \/ StatementOk \/ StatementErr \/ ReturnOk \/ ReturnErr \/ Analyze

\* the state before Parser::new, for a document text drawn from texts
InitWith(texts) ==
  /\ text \in texts
  /\ pc = "start"
  /\ parser = None
  /\ statements = <<>>
  /\ error = None
  /\ doc = None
  /\ diagnostics = None
  /\ lexer = None
  /\ returned = <<>>
  /\ documents = DashMapNew
  /\ reply = None
  /\ tasks = EmptyBag
  /\ published = DashMapNew

(***************************************************************************)
(* Document texts.  Each family of texts gives a specification: the state  *)
(* machine above, started on a text of the family.                         *)
(***************************************************************************)
\* the spelling of a keyword token
KwText(type) == Keywords[CHOOSE i \in 1..Len(Keywords) : Keywords[i][2] = type][1]

RECURSIVE Concat(_)
Concat(ss) == IF ss = <<>> THEN <<>> ELSE Head(ss) \o Concat(Tail(ss))

\* the sequences of at most n elements of S
RECURSIVE SeqsUpTo(_, _)
SeqsUpTo(S, n) ==
  IF n = 0 THEN {<<>>}
  ELSE LET R == SeqsUpTo(S, n - 1)
       IN R \cup {Append(r, x) : r \in {q \in R : Len(q) = n - 1}, x \in S}

\* the lines joined, each ended by a line feed
RECURSIVE JoinLines(_)
JoinLines(ls) == IF ls = <<>> THEN <<>> ELSE Head(ls) \o <<LF>> \o JoinLines(Tail(ls))

\* the lines of a text in which every line is ended by a line feed
RECURSIVE SplitLines(_)
SplitLines(s) ==
  IF s = <<>> THEN <<>>
  ELSE LET i == CHOOSE j \in 1..Len(s) : s[j] = LF /\ \A k \in 1..(j - 1) : s[k] # LF
       IN <<SubSeq(s, 1, i - 1)>> \o SplitLines(SubSeq(s, i + 1, Len(s)))

\* the character c, n times
RECURSIVE Rep(_, _)
Rep(c, n) == IF n = 0 THEN <<>> ELSE <<c>> \o Rep(c, n - 1)

\* the tokens Lexer::next_token returns on a text, up to and with EOF
RECURSIVE TokensFrom(_)
TokensFrom(l) ==
  LET r == LexerNextToken(l)
  IN IF r.tok = Tok("EOF") THEN <<r.tok>> ELSE <<r.tok>> \o TokensFrom(r.l)
\* the i-th token of a text (EOF from the end of the text on)
TokenAt(input, i) ==
  LET ts == TokensFrom(LexerNew(input)) IN IF i <= Len(ts) THEN ts[i] ELSE Tok("EOF")

(* ---- documents of one-line statements -------------------------------- *)
\* one-line statements: three that parse, and five that fail, one of them on
\* two counts (an invalid name and then a token that starts no expression)
LineSetUpper == KwText("Set") \o <<" ","X"," ","1">>
LineFunc == KwText("Func") \o <<" ","F","(","a",")","{","}">>
LineCall == <<"P","(","X",")">>
LineSetLower == KwText("Set") \o <<" ","x"," ","1">>
LineSetNumber == KwText("Set") \o <<" ","1"," ","x">>
LineParen == <<")">>
LineLazyOpen == KwText("Lazy") \o <<" ","L","(","1">>
LineSetLowerParen == KwText("Set") \o <<" ","y"," ",")">>

Lines ==
  {LineSetUpper, LineFunc, LineCall, LineSetLower, LineSetNumber, LineParen,
   LineLazyOpen, LineSetLowerParen}

MaxLines == 3

LineTexts == {JoinLines(ls) : ls \in SeqsUpTo(Lines, MaxLines)}

Init == InitWith(LineTexts)

Spec == Init /\ [][Next]_vars

\* what the parse of a line must fail with, at the first point of the line
\* that is wrong, read left to right: the error kind and the 1-based column of
\* the token that is wrong ("" and 0 for a line that parses)
FailKind(line) ==
  CASE line = LineSetLower -> "InvalidIdentifier"
    [] line = LineSetNumber -> "UnexpectedToken"
    [] line = LineParen -> "InvalidExpression"
    [] line = LineLazyOpen -> "UnexpectedToken"
    [] line = LineSetLowerParen -> "InvalidIdentifier"
    [] OTHER -> ""
FailColumn(line) ==
  CASE line = LineSetLower -> 5
    [] line = LineSetNumber -> 5
    [] line = LineParen -> 1
    [] line = LineLazyOpen -> 9
    [] line = LineSetLowerParen -> 5
    [] OTHER -> 0
\* the lines of the text that fail, and the first of them
FailingLines == {i \in 1..Len(SplitLines(text)) : FailKind(SplitLines(text)[i]) # ""}
FirstFailing == CHOOSE i \in FailingLines : \A j \in FailingLines : i <= j

\* C1: Parser::parse returns a document with no error or with exactly one; a
\* document with an error has an empty ast and empty variable and function
\* lists, so an error and a non-empty ast never coexist; a document with no
\* error holds the statements parsed.
C1_FailFast ==
  doc.some =>
    /\ Len(doc.val.errors) \in {0, 1}
    /\ Len(doc.val.errors) = 1 =>
         /\ doc.val.ast = <<>>
         /\ doc.val.symbols.variables = <<>>
         /\ doc.val.symbols.functions = <<>>
    /\ ~(doc.val.ast # <<>> /\ doc.val.errors # <<>>)
    /\ doc.val.errors = <<>> => doc.val.ast = statements /\ ~error.some
    /\ error.some => Len(doc.val.errors) = 1

\* a failed parse that had collected statements declaring symbols before the
\* statement that failed
C1_Witness ==
  /\ doc.some
  /\ Len(doc.val.errors) = 1
  /\ statements # <<>>
  /\ from_ast(statements) # SymbolTableNew

\* C7: of several failing statements only the first, in source order, is
\* reported: the error has the kind the first failing line must fail with, the
\* statements collected are exactly the lines before it, the parser stays
\* where the error was raised (its scanner no further than the token after the
\* failing one, so at most two line feeds past the start of the failing line),
\* and the document holds that error and no other.
C7_EarliestErrorOnly ==
  /\ pc = "done" => (error.some <=> FailingLines # {})
  /\ error.some =>
       /\ FailingLines # {}
       /\ error.val.kind = FailKind(SplitLines(text)[FirstFailing])
       /\ Len(statements) = FirstFailing - 1
       /\ error.val.line \in FirstFailing..(FirstFailing + 2)
       /\ parser.current_line = error.val.line
       /\ parser.current_column = error.val.column
       /\ doc.some =>
            doc.val.errors = <<[message |-> Display(error.val),
                                line |-> error.val.line,
                                column |-> error.val.column]>>

\* a document returned for a text with two failing lines and a parsed line
\* before them
C7_Witness ==
  /\ doc.some
  /\ Cardinality(FailingLines) >= 2
  /\ FirstFailing = 2
  /\ Len(doc.val.errors) = 1

\* C6 as claimed: the error entry carries the 1-based line and column of the
\* token at which the parse failed, for an invalid name the position of the
\* name.
C6_PositionOfFailingToken ==
  (doc.some /\ doc.val.errors # <<>>) =>
     /\ doc.val.errors[1].line >= 1
     /\ doc.val.errors[1].column >= 1
     /\ doc.val.errors[1].line = FirstFailing
     /\ doc.val.errors[1].column = FailColumn(SplitLines(text)[FirstFailing])

(* ---- Set statements with a bracket after the name --------------------- *)
\* what may stand between the name and the bracket: blanks, tabs, carriage
\* returns and block comments
GapPieces == {<<" ">>, <<TAB>>, <<CR>>, <<"/","*","c","*","/">>}
MaxGap == 2
SetNames == {<<"A","R","R">>, <<"A","_","1">>}
SetInners == {<<"0">>, <<"1",","," ","2">>}
SetTails == {<<>>, <<" ","5">>, <<" ","[","1","]">>}
SetTexts ==
  {KwText("Set") \o <<" ">> \o n \o Concat(g) \o <<"[">> \o i \o <<"]">> \o t :
     n \in SetNames, g \in SeqsUpTo(GapPieces, MaxGap), i \in SetInners, t \in SetTails}

InitSet == InitWith(SetTexts)

SpecSet == InitSet /\ [][Next]_vars

\* the leftmost operand of an expression
RECURSIVE Leftmost(_)
Leftmost(e) ==
  CASE e.kind = "Binary" -> Leftmost(e.left)
    [] e.kind = "Call" -> Leftmost(e.func)
    [] e.kind = "Index" -> Leftmost(e.object)
    [] OTHER -> e

\* the parser on the name of a Set statement that starts the text, and on the
\* token after the name
AtSetName == next_token(ParserNew(text))
AfterSetName == next_token(AtSetName)

\* C2: after Set NAME, with '[' as the next token, the whitespace flag of the
\* '[' token decides the statement parsed: with the flag it is Set of NAME with
\* a value that starts with the array literal, without it SetIndex of
\* Identifier(NAME) with the index and the value parsed from NAME[index] value.
C2_WhitespaceDecidesShape ==
  (/\ ParserNew(text).current_token = Tok("Set")
   /\ AtSetName.current_token.t = "Identifier"
   /\ AfterSetName.current_token = Tok("LeftBracket")
   /\ Len(statements) >= 1) =>
     IF AfterSetName.current_had_whitespace
     THEN /\ statements[1].kind = "Set"
          /\ statements[1].name = AtSetName.current_token.v
          /\ Leftmost(statements[1].value).kind = "Array"
     ELSE LET index == parse_expression(next_token(AfterSetName), Precedence.Lowest)
              value == parse_expression(next_token(index.p), Precedence.Lowest)
          IN /\ statements[1].kind = "SetIndex"
             /\ statements[1].object = EIdentifier(AtSetName.current_token.v)
             /\ statements[1].index = index.val
             /\ statements[1].value = value.val

\* a Set statement parsed with whitespace before the bracket
C2_Witness ==
  /\ AfterSetName.current_token = Tok("LeftBracket")
  /\ AfterSetName.current_had_whitespace
  /\ Len(statements) >= 1
  /\ statements[1].kind = "Set"
  /\ statements[1].value.kind = "Array"

(* ---- declarations and binders, over the names of a small alphabet ----- *)
NameChars == {"A", "b", "_", "7", RomanEight}
MaxName == 2
Names == SeqsUpTo(NameChars, MaxName) \ {<<>>}
NameTexts ==
  UNION {{KwText("Set") \o <<" ">> \o n \o <<" ","1">>,
          KwText("Func") \o <<" ">> \o n \o <<"(",")","{","}">>,
          KwText("Generator") \o <<" ">> \o n \o <<"(",")","{","}">>,
          KwText("Lazy") \o <<" ">> \o n \o <<"(","1",")">>,
          KwText("Func") \o <<" ","F","(">> \o n \o <<")","{","}">>,
          KwText("Generator") \o <<" ","G","(">> \o n \o <<")","{","}">>,
          KwText("Lambda") \o <<" ">> \o n \o <<" ","-",">"," ","1">>} : n \in Names}

InitNames == InitWith(NameTexts)

SpecNames == InitNames /\ [][Next]_vars

\* the place of the name in a text of NameTexts: a parameter of Func F or of
\* Generator G, or the name after Set, Func, Generator, Lazy or Lambda; and the
\* token at that place
DeclKind ==
  IF TokenAt(text, 1) = Tok("Func") /\ TokenAt(text, 2) = TokV("Identifier", <<"F">>)
  THEN "Param"
  ELSE IF TokenAt(text, 1) = Tok("Generator") /\ TokenAt(text, 2) = TokV("Identifier", <<"G">>)
  THEN "GeneratorParam"
  ELSE TokenAt(text, 1).t
NameToken ==
  IF DeclKind \in {"Param", "GeneratorParam"} THEN TokenAt(text, 4) ELSE TokenAt(text, 2)

\* every character is an uppercase letter, a digit or an underscore
OnlyUpperDigitUnderscore(name) ==
  \A i \in 1..Len(name) : IsUppercase(name[i]) \/ IsNumeric(name[i]) \/ name[i] = "_"
\* an InvalidIdentifier error naming the name was raised and nothing was parsed
RejectedName(name) ==
  /\ error.some
  /\ error.val.kind = "InvalidIdentifier"
  /\ error.val.name = name
  /\ statements = <<>>

\* C3 (amended): a Set statement or a Func definition whose name holds a
\* character that is no uppercase letter, digit or underscore fails with
\* InvalidIdentifier naming that name; a name of uppercase letters, digits and
\* underscores only passes when its first character is not numeric, and fails
\* with InvalidIdentifier when it is.
C3_StrictDeclarationNames ==
  (DeclKind \in {"Set", "Func"} /\ NameToken.t = "Identifier" /\ pc \in {"err", "done"}) =>
     /\ ~OnlyUpperDigitUnderscore(NameToken.v) => RejectedName(NameToken.v)
     /\ (OnlyUpperDigitUnderscore(NameToken.v) /\ ~IsNumeric(NameToken.v[1])) =>
          /\ ~error.some
          /\ Len(statements) = 1
          /\ statements[1].kind = (IF DeclKind = "Set" THEN "Set" ELSE "FuncDef")
          /\ statements[1].name = NameToken.v
     /\ (OnlyUpperDigitUnderscore(NameToken.v) /\ IsNumeric(NameToken.v[1])) =>
          RejectedName(NameToken.v)

\* a Func definition rejected for a name with a lowercase letter
C3_Witness ==
  /\ DeclKind = "Func"
  /\ NameToken = TokV("Identifier", <<"A", "b">>)
  /\ doc.some
  /\ RejectedName(NameToken.v)

\* C3 as claimed: every name of uppercase letters, digits and underscores only
\* passes the validation of a Set statement or Func definition.
C3_AsClaimed ==
  (/\ DeclKind \in {"Set", "Func"}
   /\ NameToken.t = "Identifier"
   /\ OnlyUpperDigitUnderscore(NameToken.v)
   /\ pc \in {"err", "done"}) =>
     ~(error.some /\ error.val.kind = "InvalidIdentifier")

\* C4 as claimed: a Generator or Lazy definition whose name breaks the strict
\* rule (first character not a digit, every character an uppercase letter, digit
\* or underscore) fails with InvalidIdentifier, and no GeneratorDef or LazyDef
\* of such a name is parsed.
C4_GeneratorLazyNamesValidated ==
  (/\ DeclKind \in {"Generator", "Lazy"}
   /\ NameToken.t = "Identifier"
   /\ ~(OnlyUpperDigitUnderscore(NameToken.v) /\ ~IsNumeric(NameToken.v[1]))) =>
     /\ statements = <<>>
     /\ pc \in {"err", "done"} => RejectedName(NameToken.v)

\* C5 (amended): an identifier in function or generator parameter position or
\* in lambda-binder position whose first character is not numeric is accepted
\* whatever the case of its letters, and becomes the parameter; one whose first
\* character is numeric fails with InvalidIdentifier.
C5_RelaxedBinderNames ==
  (/\ DeclKind \in {"Param", "GeneratorParam", "Lambda"}
   /\ NameToken.t = "Identifier"
   /\ pc \in {"err", "done"}) =>
     /\ ~IsNumeric(NameToken.v[1]) =>
          /\ ~error.some
          /\ Len(statements) = 1
          /\ IF DeclKind = "Param"
             THEN statements[1].kind = "FuncDef" /\ statements[1].params = <<NameToken.v>>
             ELSE IF DeclKind = "GeneratorParam"
             THEN /\ statements[1].kind = "GeneratorDef"
                  /\ statements[1].name = <<"G">>
                  /\ statements[1].params = <<NameToken.v>>
             ELSE /\ statements[1].kind = "Expression"
                  /\ statements[1].expr.kind = "Lambda"
                  /\ statements[1].expr.params = <<NameToken.v>>
     /\ IsNumeric(NameToken.v[1]) => RejectedName(NameToken.v)

\* a lambda parsed with a binder of a lowercase letter
C5_Witness ==
  /\ DeclKind = "Lambda"
  /\ NameToken = TokV("Identifier", <<"b">>)
  /\ doc.some
  /\ doc.val.errors = <<>>
  /\ doc.val.ast[1].expr.params = <<<<"b">>>>

\* C5 as claimed: the validation of a function or generator parameter or of a
\* lambda binder returns no error for any identifier the scanner produces.
C5_AsClaimed ==
  (/\ DeclKind \in {"Param", "GeneratorParam", "Lambda"}
   /\ NameToken.t = "Identifier"
   /\ pc \in {"err", "done"}) =>
     ~(error.some /\ error.val.kind = "InvalidIdentifier")

(* ---- numeric literals -------------------------------------------------- *)
NumberDigits == {"0", "9", ArabicThree}
MaxDigits == 17
\* runs of one digit: alone, with an inner decimal point, and with a point that
\* no digit follows
NumberTexts ==
  UNION {{Rep(d, n) : n \in 1..MaxDigits}
         \cup {Rep(d, n) \o <<".">> : n \in 1..MaxDigits}
         \cup {Rep(d, n) \o <<".">> \o Rep(d, m) :
                 n \in 1..MaxDigits, m \in 1..MaxDigits} : d \in NumberDigits}

InitNumbers == InitWith({t \in NumberTexts : Len(t) <= MaxDigits + 1})

SpecNumbers == InitNumbers /\ [][Next]_vars

\* the digits before the first decimal point of a text of NumberTexts, and
\* whether the literal holds a decimal point (one that a digit follows)
IntegerDigits ==
  IF \E i \in 1..Len(text) : text[i] = "."
  THEN (CHOOSE i \in 1..Len(text) : text[i] = ".") - 1
  ELSE Len(text)
HasDecimalPoint == \E i \in 1..(Len(text) - 1) : text[i] = "."

\* C8 as claimed: a literal of n digits and no decimal point is scanned as
\* BigInteger of exactly its digits when n > 15 and as Number when n <= 15 (so
\* never as BigInteger), a literal with a decimal point never as BigInteger, and
\* the parser turns the BigInteger token into Expr::BigInteger of the same string.
C8_BigIntegerOver15Digits ==
  /\ pc = "new" =>
       /\ (parser.current_token.t = "BigInteger") <=> (~HasDecimalPoint /\ IntegerDigits > 15)
       /\ parser.current_token.t = "BigInteger" =>
            parser.current_token.v = SubSeq(text, 1, IntegerDigits)
  /\ (Len(statements) >= 1 /\ ~HasDecimalPoint /\ IntegerDigits > 15) =>
       statements[1] = SExpression(EBigInteger(SubSeq(text, 1, IntegerDigits)))

(* ---- two binary operators between three operands ---------------------- *)
\* the binary operators: spelling, token, BinOp, and the precedence level the
\* language gives them (or < and < equality < comparison < sum < product)
Ops ==
  << [sym |-> <<"|","|">>, tok |-> "Or", op |-> "Or", level |-> 1],
     [sym |-> <<"&","&">>, tok |-> "And", op |-> "And", level |-> 2],
     [sym |-> <<"=","=">>, tok |-> "Equal", op |-> "Equal", level |-> 3],
     [sym |-> <<"!","=">>, tok |-> "NotEqual", op |-> "NotEqual", level |-> 3],
     [sym |-> <<"<">>, tok |-> "Less", op |-> "Less", level |-> 4],
     [sym |-> <<"<","=">>, tok |-> "LessEqual", op |-> "LessEqual", level |-> 4],
     [sym |-> <<">">>, tok |-> "Greater", op |-> "Greater", level |-> 4],
     [sym |-> <<">","=">>, tok |-> "GreaterEqual", op |-> "GreaterEqual", level |-> 4],
     [sym |-> <<"+">>, tok |-> "Plus", op |-> "Add", level |-> 5],
     [sym |-> <<"-">>, tok |-> "Minus", op |-> "Subtract", level |-> 5],
     [sym |-> <<"*">>, tok |-> "Multiply", op |-> "Multiply", level |-> 6],
     [sym |-> <<"/">>, tok |-> "Divide", op |-> "Divide", level |-> 6],
     [sym |-> <<"%">>, tok |-> "Modulo", op |-> "Modulo", level |-> 6] >>

\* a p b q c, the operands being 5, 3 and 2 or (with names) A, B and C
Operands == {<<"5", "3", "2">>, <<"A", "B", "C">>}
ChainText(o, p, q) ==
  <<o[1], " ">> \o p.sym \o <<" ", o[2], " ">> \o q.sym \o <<" ", o[3]>>
\* the same with the last operand missing
OpenChainText(o, p, q) ==
  <<o[1], " ">> \o p.sym \o <<" ", o[2], " ">> \o q.sym
PrecedenceTexts ==
  {ChainText(o, Ops[i], Ops[j]) : o \in Operands, i \in 1..Len(Ops), j \in 1..Len(Ops)}
  \cup {OpenChainText(o, Ops[i], Ops[j]) :
          o \in Operands, i \in 1..Len(Ops), j \in 1..Len(Ops)}

InitPrecedence == InitWith(PrecedenceTexts)

SpecPrecedence == InitPrecedence /\ [][Next]_vars

\* the expression an operand of a chain parses to
Operand(c) == IF c \in AsciiDigits THEN ENumber(<<c>>) ELSE EIdentifier(<<c>>)

\* C9: with p on a lower precedence level than q, a p b q c parses as
\* Binary(a, p, Binary(b, q, c)) and a q b p c as Binary(Binary(a, q, b), p, c).
C9_PrecedenceGrouping ==
  \A o \in Operands : \A i, j \in 1..Len(Ops) :
    (Ops[i].level < Ops[j].level /\ pc = "done") =>
      /\ text = ChainText(o, Ops[i], Ops[j]) =>
           /\ ~error.some
           /\ statements =
                <<SExpression(EBinary(Operand(o[1]), Ops[i].op,
                                      EBinary(Operand(o[2]), Ops[j].op, Operand(o[3]))))>>
      /\ text = ChainText(o, Ops[j], Ops[i]) =>
           /\ ~error.some
           /\ statements =
                <<SExpression(EBinary(EBinary(Operand(o[1]), Ops[j].op, Operand(o[2])),
                                      Ops[i].op, Operand(o[3])))>>

\* 5 + 3 * 2 parsed to Add(5, Multiply(3, 2))
C9_Witness ==
  /\ text = <<"5", " ", "+", " ", "3", " ", "*", " ", "2">>
  /\ doc.some
  /\ doc.val.ast =
       <<SExpression(EBinary(ENumber(<<"5">>), "Add",
                             EBinary(ENumber(<<"3">>), "Multiply", ENumber(<<"2">>))))>>

\* C28: with p and q on one precedence level, a p b q c parses as
\* Binary(Binary(a, p, b), q, c).
C28_LeftAssociative ==
  \A o \in Operands : \A i, j \in 1..Len(Ops) :
    (Ops[i].level = Ops[j].level /\ pc = "done" /\ text = ChainText(o, Ops[i], Ops[j])) =>
      /\ ~error.some
      /\ statements =
           <<SExpression(EBinary(EBinary(Operand(o[1]), Ops[i].op, Operand(o[2])),
                                 Ops[j].op, Operand(o[3])))>>

\* A / B * C parsed to Multiply(Divide(A, B), C)
C28_Witness ==
  /\ text = <<"A", " ", "/", " ", "B", " ", "*", " ", "C">>
  /\ doc.some
  /\ doc.val.ast =
       <<SExpression(EBinary(EBinary(EIdentifier(<<"A">>), "Divide", EIdentifier(<<"B">>)),
                             "Multiply", EIdentifier(<<"C">>)))>>

(* ---- For statements ---------------------------------------------------- *)
\* what follows  For I : a comma, In, or another token; and the rest
ForMids ==
  {<<",", " ", "V", " ">> \o KwText("In"), <<" ">> \o KwText("In"),
   <<" ", "V", " ">> \o KwText("In"), <<",", " ">> \o KwText("In"),
   <<",", " ", "1", " ">> \o KwText("In"), <<>>, <<" ", "=">>, <<"(">>, <<",">>,
   <<" ", "{">>, <<LF>> \o KwText("In")}
ForEnds ==
  {<<" ", "R", " ", "{", "}">>, <<" ", "R", "(", "0", ")", " ", "{", "P", "(", "I", ")", "}">>,
   <<>>, <<" ", "{">>}
ForTexts == {KwText("For") \o <<" ", "I">> \o m \o t : m \in ForMids, t \in ForEnds}

InitFor == InitWith(ForTexts)

SpecFor == InitFor /\ [][Next]_vars

\* C10: For, an identifier and a comma parse to ForIndexed with the first
\* identifier as index_var and the second as value_var; For, an identifier and
\* In parse to For with the identifier as var; any other token after the first
\* identifier is an UnexpectedToken error.  (A statement that is wrong
\* further on fails; it never parses to the other form.)
C10_ForForms ==
  (/\ TokenAt(text, 1) = Tok("For")
   /\ TokenAt(text, 2).t = "Identifier"
   /\ pc \in {"err", "done"}) =>
     CASE TokenAt(text, 3) = Tok("Comma") ->
            \/ error.some /\ statements = <<>>
            \/ /\ ~error.some
               /\ Len(statements) >= 1
               /\ statements[1].kind = "ForIndexed"
               /\ statements[1].index_var = TokenAt(text, 2).v
               /\ TokenAt(text, 4).t = "Identifier"
               /\ statements[1].value_var = TokenAt(text, 4).v
       [] TokenAt(text, 3) = Tok("In") ->
            \/ error.some /\ statements = <<>>
            \/ /\ ~error.some
               /\ Len(statements) >= 1
               /\ statements[1].kind = "For"
               /\ statements[1].var = TokenAt(text, 2).v
       [] OTHER ->
            /\ error.some
            /\ statements = <<>>
            /\ error.val.kind = "UnexpectedToken"
            /\ error.val.found = TokenAt(text, 3)

\* For I, V In ... parsed to ForIndexed
C10_Witness ==
  /\ TokenAt(text, 3) = Tok("Comma")
  /\ doc.some
  /\ doc.val.errors = <<>>
  /\ doc.val.ast[1].kind = "ForIndexed"
  /\ doc.val.ast[1].index_var = <<"I">>
  /\ doc.val.ast[1].value_var = <<"V">>

(* ---- Switch statements ------------------------------------------------ *)
\* a Switch statement is written one item to a line: the opening line, then
\* blocks, each a Case or Default line and the statements of its body, then
\* the closing brace
LineSwitchOpen == KwText("Switch") \o <<" ","(","X",")"," ","{">>
LineCaseOne == KwText("Case") \o <<" ","1",":">>
LineCaseTwo == KwText("Case") \o <<" ","2",":">>
LineDefault == KwText("Default") \o <<":">>
LineClose == <<"}">>
CaseLines == {LineCaseOne, LineCaseTwo}
SwitchBlockBodies == {<<>>, <<LineCall>>, <<LineSetUpper, LineCall>>}
SwitchBlocks == {<<h>> \o b : h \in CaseLines \cup {LineDefault}, b \in SwitchBlockBodies}

MaxBlocks == 3

SwitchTexts ==
  {JoinLines(<<LineSwitchOpen>> \o Concat(bs) \o <<LineClose>>) :
     bs \in SeqsUpTo(SwitchBlocks, MaxBlocks)}

InitSwitch == InitWith(SwitchTexts)

SpecSwitch == InitSwitch /\ [][Next]_vars

\* the statement a body line is
StmtOfLine(line) ==
  IF line = LineSetUpper THEN SSet(<<"X">>, ENumber(<<"1">>))
  ELSE SExpression(ECall(EIdentifier(<<"P">>), <<EIdentifier(<<"X">>)>>))
\* the expression of a Case line
CaseExprOfLine(line) == ENumber(IF line = LineCaseOne THEN <<"1">> ELSE <<"2">>)

\* read off the text: the lines between the opening line and the closing brace,
\* the places of the Case and Default lines among them, and for such a place
\* the statements from the line after it up to the next Case or Default line or
\* the closing brace
BlockLines == SubSeq(SplitLines(text), 2, Len(SplitLines(text)) - 1)
HeadPlaces == {i \in 1..Len(BlockLines) : BlockLines[i] \in CaseLines \cup {LineDefault}}
CasePlaces == {i \in HeadPlaces : BlockLines[i] \in CaseLines}
DefaultPlaces == {i \in HeadPlaces : BlockLines[i] = LineDefault}
BodyEnd(i) ==
  IF \E j \in HeadPlaces : j > i
  THEN (CHOOSE j \in HeadPlaces : j > i /\ \A k \in HeadPlaces : k > i => j <= k) - 1
  ELSE Len(BlockLines)
BodyWritten(i) == [k \in 1..(BodyEnd(i) - i) |-> StmtOfLine(BlockLines[i + k])]
\* the elements of a set of places, in increasing order
RECURSIVE InOrder(_)
InOrder(S) ==
  IF S = {} THEN <<>>
  ELSE LET m == CHOOSE i \in S : \A j \in S : i <= j IN <<m>> \o InOrder(S \ {m})
CasesWritten ==
  LET ps == InOrder(CasePlaces)
  IN [n \in 1..Len(ps) |-> <<CaseExprOfLine(BlockLines[ps[n]]), BodyWritten(ps[n])>>]
\* the Default line is the last Case or Default line, if there is one
DefaultIsLast == \A i \in DefaultPlaces : \A j \in HeadPlaces : j <= i

\* C11: a parsed Switch statement holds the cases in source order, each with
\* exactly the statements between its colon and the next Case, Default or
\* closing brace, and holds a default exactly when a Default block is written;
\* a Default block that is not last is an error: after its body only the
\* closing brace is accepted.
C11_SwitchBlocks ==
  pc \in {"err", "done"} =>
    IF DefaultIsLast
    THEN /\ ~error.some
         /\ Len(statements) = 1
         /\ statements[1].kind = "Switch"
         /\ statements[1].cases = CasesWritten
         /\ statements[1].default.some = (DefaultPlaces # {})
         /\ \A i \in DefaultPlaces : statements[1].default.val = BodyWritten(i)
    ELSE /\ error.some
         /\ statements = <<>>

\* a Switch parsed with two cases, the first of two statements, and a default
C11_Witness ==
  /\ doc.some
  /\ doc.val.errors = <<>>
  /\ Len(doc.val.ast) = 1
  /\ doc.val.ast[1].kind = "Switch"
  /\ Len(doc.val.ast[1].cases) = 2
  /\ Len(doc.val.ast[1].cases[1][2]) = 2
  /\ doc.val.ast[1].cases[2][1] = ENumber(<<"1">>)
  /\ doc.val.ast[1].default = Some(<<StmtOfLine(LineCall)>>)

(* ---- Import statements ------------------------------------------------ *)
\* an imported name, written alone, with an alias, or with As and no alias
ImportNames == {<<"A">>, <<"C">>}
ImportAliasClauses ==
  {<<>>, <<" ">> \o KwText("As") \o <<" ","B">>, <<" ">> \o KwText("As") \o <<" ","D","2">>,
   <<" ">> \o KwText("As")}
ImportItems == {n \o a : n \in ImportNames, a \in ImportAliasClauses}
ImportEnd == <<" ">> \o KwText("From") \o <<" ","\"","m","\"">>
ImportEndNoPath == <<" ">> \o KwText("From")

MaxImports == 3

\* the items of a braced list, a comma and a blank between them
RECURSIVE JoinItems(_)
JoinItems(is) ==
  IF is = <<>> THEN <<>>
  ELSE IF Len(is) = 1 THEN is[1]
  ELSE is[1] \o <<",", " ">> \o JoinItems(Tail(is))

ImportTexts ==
  {KwText("Import") \o <<" ">> \o i \o e : i \in ImportItems, e \in {ImportEnd, ImportEndNoPath}}
  \cup {KwText("Import") \o <<" ", "{">> \o JoinItems(is) \o <<"}">> \o ImportEnd :
          is \in SeqsUpTo(ImportItems, MaxImports)}

InitImport == InitWith(ImportTexts)

SpecImport == InitImport /\ [][Next]_vars

\* read off the tokens of a text: the places of the imported names (an
\* identifier after Import, after the opening brace or after a comma), in
\* order, and the alias written after a name (the identifier after an As that
\* follows the name), if any
NamePlaces(toks) ==
  InOrder({i \in 2..Len(toks) :
             /\ toks[i].t = "Identifier"
             /\ toks[i - 1].t \in {"Import", "LeftBrace", "Comma"}})
AliasWritten(toks, i) ==
  IF toks[i + 1].t = "As" /\ toks[i + 2].t = "Identifier" THEN Some(toks[i + 2].v) ELSE None
\* the text ends with the path
PathWritten == SubSeq(text, Len(text) - 2, Len(text)) = <<"\"","m","\"">>

\* C12: an Import statement parsed, in the single-name form or the braced
\* form, has as many aliases as names, and its i-th alias is the alias written
\* after its i-th name, or none when none is written there.  (An Import
\* without its path is an error and gives no statement.)
C12_ImportAliasesParallel ==
  pc \in {"err", "done"} =>
    IF PathWritten
    THEN LET toks == TokensFrom(LexerNew(text))
             places == NamePlaces(toks)
         IN /\ ~error.some
            /\ Len(statements) = 1
            /\ statements[1].kind = "Import"
            /\ Len(statements[1].aliases) = Len(statements[1].names)
            /\ statements[1].names = [n \in 1..Len(places) |-> toks[places[n]].v]
            /\ statements[1].aliases = [n \in 1..Len(places) |-> AliasWritten(toks, places[n])]
            /\ statements[1].path = <<"m">>
    ELSE error.some /\ statements = <<>>

\* a braced Import parsed with an alias for the second of three names only
C12_Witness ==
  /\ doc.some
  /\ doc.val.errors = <<>>
  /\ doc.val.ast[1].kind = "Import"
  /\ doc.val.ast[1].names = <<<<"A">>, <<"C">>, <<"A">>>>
  /\ doc.val.ast[1].aliases = <<None, Some(<<"D", "2">>), None>>

(* ---- documents for the naming lint ------------------------------------ *)
\* one-line statements with a name after Set, Generator or Lazy: names the
\* lint accepts and names it does not; a call, whose identifiers follow no
\* such keyword; and a Set statement that fails to parse
LineLazyLower == KwText("Lazy") \o <<" ","b","(","1",")">>
LineGeneratorLower == KwText("Generator") \o <<" ","g","7","(",")","{","}">>
LineLazyUpper == KwText("Lazy") \o <<" ","L","_","2","(","1",")">>
LineSetRoman == KwText("Set") \o <<" ","A",RomanEight," ","1">>
LineCallLower == <<"p","(","b",")">>

LintLines ==
  {LineLazyLower, LineGeneratorLower, LineLazyUpper, LineSetRoman, LineCallLower,
   LineSetUpper, LineSetLower}

LintTexts == {JoinLines(ls) : ls \in SeqsUpTo(LintLines, MaxLines)}

InitLint == InitWith(LintTexts)

SpecLint == InitLint /\ [][Next]_vars

\* the identifier that follows the Set, Generator or Lazy token of a line, if
\* the line has one
DefinedName(line) ==
  CASE line = LineLazyLower -> <<<<"b">>>>
    [] line = LineGeneratorLower -> <<<<"g","7">>>>
    [] line = LineLazyUpper -> <<<<"L","_","2">>>>
    [] line = LineSetRoman -> <<<<"A",RomanEight>>>>
    [] line = LineSetUpper -> <<<<"X">>>>
    [] line = LineSetLower -> <<<<"x">>>>
    [] OTHER -> <<>>
\* the strict UPPER_SNAKE_CASE predicate of the lint: ASCII uppercase letters,
\* ASCII digits and underscores only, and no digit first
UpperSnakeCase(name) ==
  /\ Len(name) >= 1
  /\ \A i \in 1..Len(name) : name[i] \in UpperLetters \cup AsciiDigits \cup {"_"}
  /\ name[1] \notin AsciiDigits
\* the names the lint is to warn about in lines, in source order
RECURSIVE NamesToWarn(_)
NamesToWarn(lines) ==
  IF lines = <<>> THEN <<>>
  ELSE (IF DefinedName(Head(lines)) # <<>> /\ ~UpperSnakeCase(DefinedName(Head(lines))[1])
        THEN DefinedName(Head(lines)) ELSE <<>>) \o NamesToWarn(Tail(lines))

\* C13: with parse errors the diagnostics are one Error for each parse error
\* and no Warning; without parse errors they hold no Error and one Warning for
\* each identifier that follows a Set, Func, Generator or Lazy token and fails
\* the strict UPPER_SNAKE_CASE predicate, in source order.
C13_LintOnlyWithoutErrors ==
  diagnostics.some =>
    LET ds == diagnostics.val
    IN IF doc.val.errors # <<>>
       THEN /\ Len(ds) = Len(doc.val.errors)
            /\ \A i \in 1..Len(ds) :
                 ds[i].severity = "ERROR" /\ ds[i].message = doc.val.errors[i].message
       ELSE /\ \A i \in 1..Len(ds) : ds[i].severity = "WARNING"
            /\ [i \in 1..Len(ds) |-> ds[i].name] = NamesToWarn(SplitLines(text))

\* two warnings in source order, for a document that parses
C13_Witness ==
  /\ diagnostics.some
  /\ doc.val.errors = <<>>
  /\ Len(diagnostics.val) = 2
  /\ diagnostics.val[1].name = <<"A", RomanEight>>
  /\ diagnostics.val[2].name = <<"b">>
  /\ diagnostics.val[2].suggestion = <<"B">>

(* ---- definitions nested in bodies ------------------------------------- *)
\* definitions, one to a line, and the places a body of statements can stand
\* in: each place is the text before the body and the text after it
LineSetY == KwText("Set") \o <<" ","Y"," ","1">>
LineLazyUpperL == KwText("Lazy") \o <<" ","L","(","1",")">>
LineFuncInner == KwText("Func") \o <<" ","F","2","(",")"," ","{","}">>
LineGeneratorInner == KwText("Generator") \o <<" ","G","2","(",")"," ","{","}">>
DefinitionLines == {LineSetY, LineLazyUpperL, LineFuncInner, LineGeneratorInner}

InFuncBody == <<KwText("Func") \o <<" ","F","(","a",")"," ","{",LF>>, <<"}",LF>>>>
InGeneratorBody == <<KwText("Generator") \o <<" ","G","(","a",")"," ","{",LF>>, <<"}",LF>>>>
InWhileBody == <<KwText("While") \o <<" ","(","X",")"," ","{",LF>>, <<"}",LF>>>>
InForBody ==
  <<KwText("For") \o <<" ","I"," ">> \o KwText("In") \o <<" ","R"," ","{",LF>>, <<"}",LF>>>>
InCaseBody ==
  <<LineSwitchOpen \o <<LF>> \o LineCaseOne \o <<LF>>, LineDefault \o <<LF,"}",LF>>>>
InDefaultBody ==
  <<LineSwitchOpen \o <<LF>> \o LineCaseOne \o <<LF>> \o LineDefault \o <<LF>>, <<"}",LF>>>>
InThenBranch == <<KwText("If") \o <<" ","(","X",")"," ","{",LF>>, <<"}",LF>>>>
InElifBranch ==
  <<KwText("If") \o <<" ","(","X",")"," ","{","}"," ">> \o KwText("Elif")
      \o <<" ","(","X",")"," ","{",LF>>, <<"}",LF>>>>
InElseBranch ==
  <<KwText("If") \o <<" ","(","X",")"," ","{","}"," ">> \o KwText("Else") \o <<" ","{",LF>>,
    <<"}",LF>>>>
InLambdaStatement == <<<<"(">> \o KwText("Func") \o <<"(","a",")"," ","{",LF>>, <<"}",")",LF>>>>
InLambdaValue ==
  <<KwText("Set") \o <<" ","H"," ">> \o KwText("Func") \o <<"(","a",")"," ","{",LF>>,
    <<"}",LF>>>>
InLambdaArgument == <<<<"P","(">> \o KwText("Func") \o <<"(",")"," ","{",LF>>, <<"}",")",LF>>>>
InIfValue ==
  <<KwText("Set") \o <<" ","H"," ">> \o KwText("If") \o <<" ","(","X",")"," ","{",LF>>,
    <<"}",LF>>>>
InUnclosedWhile == <<KwText("While") \o <<" ","(","X",")"," ","{",LF>>, <<>>>>
BodyPlaces ==
  {<<<<>>, <<>>>>, InFuncBody, InGeneratorBody, InWhileBody, InForBody, InCaseBody,
   InDefaultBody, InThenBranch, InElifBranch, InElseBranch, InLambdaStatement,
   InLambdaValue, InLambdaArgument, InIfValue, InUnclosedWhile}

MaxDefinitions == 2

\* a body of definitions in a place, alone or within a second place
NestedTexts ==
  LET bodies == {JoinLines(ls) : ls \in SeqsUpTo(DefinitionLines, MaxDefinitions)}
      once == {w[1] \o b \o w[2] : w \in BodyPlaces, b \in bodies}
  IN once \cup {w[1] \o LineSetY \o <<LF>> \o v[1] \o LineLazyUpperL \o <<LF>> \o v[2] \o w[2] :
                  w \in BodyPlaces, v \in BodyPlaces}

InitNested == InitWith(NestedTexts)

SpecNested == InitNested /\ [][Next]_vars

\* read off the tokens: the identifiers that follow a token of kinds, in order
NamesAfter(toks, kinds) ==
  LET places == InOrder({i \in 2..Len(toks) :
                           toks[i].t = "Identifier" /\ toks[i - 1].t \in kinds})
  IN [n \in 1..Len(places) |-> toks[places[n]].v]
SymbolNames(infos) == [n \in 1..Len(infos) |-> infos[n].name]

\* C14 as claimed: for a parsed document the symbol table holds one variable
\* for every Set and Lazy statement and one function for every Func and
\* Generator definition at any depth in function, generator, loop and switch
\* bodies, if branches and lambda bodies, in source order.
C14_NestedDefinitionsIndexed ==
  (doc.some /\ doc.val.errors = <<>>) =>
    LET toks == TokensFrom(LexerNew(text))
    IN /\ SymbolNames(doc.val.symbols.variables) = NamesAfter(toks, {"Set", "Lazy"})
       /\ SymbolNames(doc.val.symbols.functions) = NamesAfter(toks, {"Func", "Generator"})

(***************************************************************************)
(* The backend serving document events and rename requests.  A did_open or *)
(* did_change handler runs parse_and_diagnose, which gives way to the      *)
(* other handlers at each of its three awaits; did_close and rename have   *)
(* no await and run whole.  The client takes a notification when           *)
(* publish_diagnostics is called; the await that follows only waits.       *)
(***************************************************************************)
Uris == {"file:///a.aether", "file:///b.aether"}
EventTexts == {LineSetUpper, LineSetLower, LineFunc, LineLazyLower \o <<LF>> \o LineSetUpper}
Positions == {[line |-> 0, character |-> 0], [line |-> 0, character |-> 4]}
NewNames == {<<"Y">>, <<"y">>, <<>>, <<"1","A">>, <<"X","_","2">>}
\* the handlers that can be inside parse_and_diagnose at once
MaxHandlers == 2

\* a handler that has returned, noted for the observer: the request, its uri,
\* the text it handed to parse_and_diagnose if it did, and its response
Returned(request, uri, input, result) ==
  Some([request |-> request, uri |-> uri, text |-> input, result |-> result])

\* parse_and_diagnose(uri, input) entered by a handler: it waits at its first
\* log_message
Enter(request, uri, input) ==
  /\ BagCardinality(tasks) < MaxHandlers
  /\ tasks' = tasks (+) SetToBag({[request |-> request, uri |-> uri, text |-> input,
                                   pc |-> "log", parsed |-> None, diagnostics |-> None]})
  /\ UNCHANGED <<text, pc, parser, statements, error, doc, diagnostics, scanVars,
                 documents, reply, published>>

\* AetherLspBackend::did_open
DidOpen(uri, t) == Enter("did_open", uri, t)

\* AetherLspBackend::did_change: the first of the content changes, if any
DidChange(uri, changes) ==
  IF changes # <<>>
  THEN Enter("did_change", uri, changes[1])
  ELSE /\ reply' = Returned("did_change", uri, None, None)
       /\ UNCHANGED <<text, pc, parser, statements, error, doc, diagnostics, scanVars,
                      documents, taskVars>>

\* the handler task from one await to the next
Step(task, next) ==
  tasks' = (tasks (-) SetToBag({task})) (+) SetToBag({next})

\* task with its document parsed and analysed
Parsed(task, parsed) ==
  /\ Step(task, [task EXCEPT !.pc = "parsed", !.parsed = Some(parsed),
                             !.diagnostics = Some(analyze(parsed, task.text))])
  /\ UNCHANGED <<text, pc, parser, statements, error, doc, diagnostics, scanVars,
                 documents, reply, published>>

\* parse_and_diagnose from its first await to its second: Parser::parse and
\* DiagnosticEngine::analyze
ParseAndAnalyze ==
  \E task \in BagToSet(tasks) :
    /\ task.pc = "log"
    /\ Parsed(task, parse(task.text))

\* parse_and_diagnose from its second await into its third: documents.insert
\* and, with no await between, the call of publish_diagnostics, which hands
\* the diagnostics of the task to the client
CacheAndPublish_unless_empty ==
  \E task \in BagToSet(tasks) :
    /\ task.pc = "parsed"
    /\ documents' = DashMapInsert(documents, task.uri, task.parsed.val)
    /\ published' = IF task.diagnostics.val = <<>> THEN published
                    ELSE [u \in DOMAIN published \cup {task.uri} |->
                            IF u = task.uri THEN task.diagnostics.val ELSE published[u]]
    /\ Step(task, [task EXCEPT !.pc = "publishing"])
    /\ UNCHANGED <<text, pc, parser, statements, error, doc, diagnostics, scanVars, reply>>
CacheAndPublish ==
  \E task \in BagToSet(tasks) :
    /\ task.pc = "parsed"
    /\ documents' = DashMapInsert(documents, task.uri, task.parsed.val)
    /\ published' = [u \in DOMAIN published \cup {task.uri} |->
                       IF u = task.uri THEN task.diagnostics.val ELSE published[u]]
    /\ Step(task, [task EXCEPT !.pc = "publishing"])
    /\ UNCHANGED <<text, pc, parser, statements, error, doc, diagnostics, scanVars, reply>>

\* the third await is over: parse_and_diagnose and the handler return
HandlerReturns ==
  \E task \in BagToSet(tasks) :
    /\ task.pc = "publishing"
    /\ tasks' = tasks (-) SetToBag({task})
    /\ reply' = Returned(task.request, task.uri, Some(task.text), None)
    /\ UNCHANGED <<text, pc, parser, statements, error, doc, diagnostics, scanVars,
                   documents, published>>

\* AetherLspBackend::did_close
DidClose(uri) ==
  /\ documents' = DashMapRemove(documents, uri)
  /\ reply' = Returned("did_close", uri, None, None)
  /\ UNCHANGED <<text, pc, parser, statements, error, doc, diagnostics, scanVars, taskVars>>

\* AetherLspBackend::rename
Rename(uri, position, new_name) ==
  /\ reply' = Returned("rename", uri, None, rename(documents, uri, position, new_name))
  /\ UNCHANGED <<text, pc, parser, statements, error, doc, diagnostics, scanVars, documents,
                 taskVars>>

\* no handler of a document event for uri is running
Idle(uri) == \A task \in BagToSet(tasks) : task.uri # uri

\* the events of a uri arrive one at a time: the next when the handler of the
\* one before has returned
NextBackend ==
  \/ \E uri \in Uris :
       /\ Idle(uri)
       /\ \/ \E t \in EventTexts : DidOpen(uri, t)
          \/ \E changes \in SeqsUpTo(EventTexts, 2) : DidChange(uri, changes)
          \/ DidClose(uri)
  \/ ParseAndAnalyze
  \/ CacheAndPublish
  \/ HandlerReturns
  \/ \E uri \in Uris, position \in Positions, new_name \in NewNames :
       Rename(uri, position, new_name)

InitBackend == InitWith({<<>>})

SpecBackend == InitBackend /\ [][NextBackend]_vars

\* C15: a rename request is answered with no edit, whether or not the
\* document is cached and whatever the new name, and it leaves the document
\* cache as it was.
C15_RenameNoEdit ==
  /\ [](reply.some /\ reply.val.request = "rename" => reply.val.result = None)
  /\ [][(reply' # reply /\ reply'.val.request = "rename") => documents' = documents]_vars

\* a rename answered for a cached document with a valid new name
C15_Witness ==
  /\ reply.some
  /\ reply.val.request = "rename"
  /\ "file:///a.aether" \in DOMAIN documents
  /\ documents["file:///a.aether"].errors = <<>>
  /\ Len(documents["file:///a.aether"].symbols.variables) = 2

\* C26: with the events of a uri handled one at a time, once the handler of a
\* did_open or did_change has returned the cache holds for its uri the whole
\* result of Parser::parse on the text of that event (the first content change
\* of a did_change), and after a did_close no entry, until the next event for
\* the uri; a step that changes the entry of a uri belongs to an event for that
\* uri, and a did_change with no content change leaves the cache as it was.
C26_CacheHoldsLastParse ==
  /\ [](reply.some /\ Idle(reply.val.uri) =>
         LET e == reply.val
         IN /\ (e.request \in {"did_open", "did_change"} /\ e.text.some) =>
                 /\ e.uri \in DOMAIN documents
                 /\ documents[e.uri] = parse(e.text.val)
            /\ e.request = "did_close" => e.uri \notin DOMAIN documents)
  /\ [][\A u \in Uris :
          \/ /\ u \in DOMAIN documents' <=> u \in DOMAIN documents
             /\ u \in DOMAIN documents => documents'[u] = documents[u]
          \/ \E task \in BagToSet(tasks) : task.uri = u /\ task.pc = "parsed"
          \/ /\ reply' # reply
             /\ reply'.val.request = "did_close"
             /\ reply'.val.uri = u]_vars
  /\ [][(reply' # reply /\ reply'.val.request = "did_change" /\ ~reply'.val.text.some)
          => documents' = documents]_vars

\* a did_change for a uri cached before with another text has returned, while
\* the other uri is cached too
C26_Witness ==
  /\ reply.some
  /\ reply.val.request = "did_change"
  /\ reply.val.uri = "file:///a.aether"
  /\ reply.val.text = Some(LineSetLower)
  /\ Idle("file:///a.aether")
  /\ "file:///a.aether" \in DOMAIN published
  /\ published["file:///a.aether"] # <<>>
  /\ documents["file:///a.aether"].errors # <<>>
  /\ "file:///b.aether" \in DOMAIN documents
  /\ documents["file:///b.aether"].text = LineFunc


(***************************************************************************)
(* The scanner used on its own: Lexer::new on the text, then next_token    *)
(* call after call, each noted with what line(), column() and              *)
(* had_whitespace() answer after it and with the scanner's position before *)
(* and after it.                                                           *)
(***************************************************************************)
MaxTokens == 6

\* Lexer::new(text)
ScanNew ==
  /\ ~lexer.some
  /\ lexer' = Some(LexerNew(text))
  /\ UNCHANGED <<text, pc, parser, statements, error, doc, diagnostics, returned, serverVars>>

\* what a call of next_token that gave r leaves
Scanned(r) ==
  /\ lexer' = Some(r.l)
  /\ returned' = Append(returned,
       [token |-> r.tok, line |-> r.l.line, column |-> r.l.column,
        had_whitespace |-> r.l.had_whitespace_before_token,
        from |-> lexer.val.position, position |-> r.l.position])
  /\ UNCHANGED <<text, pc, parser, statements, error, doc, diagnostics, serverVars>>

\* Lexer::next_token
ScanNextToken ==
  /\ lexer.some
  /\ Len(returned) < MaxTokens
  /\ Scanned(LexerNextToken(lexer.val))

NextScan == ScanNew \/ ScanNextToken

(* ---- string literals --------------------------------------------------- *)
\* an opening delimiter and then a few characters: some of the texts are
\* literals that are closed, some are not
StringChars == {"a", "\"", "\\", LF, NUL}
OneQuote == <<"\"">>
ThreeQuotes == <<"\"", "\"", "\"">>

MaxStringChars == 4

StringTexts ==
  {open \o s : open \in {OneQuote, ThreeQuotes}, s \in SeqsUpTo(StringChars, MaxStringChars)}

InitStrings == InitWith(StringTexts)

SpecStrings == InitStrings /\ [][NextScan]_vars

\* read off the text: the literal that starts the text is triple-quoted, and
\* its closing delimiter is written (for a single-quoted literal a quote that
\* no backslash escapes, for a triple-quoted one three quotes in a row)
TripleQuoted(s) == Len(s) >= 3 /\ SubSeq(s, 1, 3) = ThreeQuotes
RECURSIVE ClosingQuoteFrom(_, _)
ClosingQuoteFrom(s, i) ==
  IF i > Len(s) THEN FALSE
  ELSE IF s[i] = "\\" THEN ClosingQuoteFrom(s, i + 2)
  ELSE IF s[i] = "\"" THEN TRUE
  ELSE ClosingQuoteFrom(s, i + 1)
Closed(s) ==
  IF TripleQuoted(s) THEN \E i \in 4..(Len(s) - 2) : SubSeq(s, i, i + 2) = ThreeQuotes
  ELSE ClosingQuoteFrom(s, 2)

\* C16 as claimed: a string literal, single-quoted or triple-quoted, whose
\* closing delimiter is missing is scanned as the one token Illegal('"'), and
\* every token after it is end-of-input.
C16_UnterminatedString ==
  ~Closed(text) =>
    \A i \in 1..Len(returned) :
      returned[i].token = (IF i = 1 THEN TokV("Illegal", <<"\"">>) ELSE Tok("EOF"))

(* ---- texts to scan ----------------------------------------------------- *)
\* pieces of text: a letter, a blank, a line feed, the string delimiters, a
\* block comment on one line and one over two lines, the start of a line
\* comment
ScanPieces ==
  {<<"a">>, <<" ">>, <<LF>>, OneQuote, ThreeQuotes, <<"/","*","*","/">>,
   <<"/","*",LF,"*","/">>, <<"/","/">>}

MaxPieces == 4

ScanTexts == {Concat(ps) : ps \in SeqsUpTo(ScanPieces, MaxPieces)}

InitScan == InitWith(ScanTexts)

SpecScan == InitScan /\ [][NextScan]_vars

\* the line feeds among the first n characters of s
LineFeeds(s, n) ==
  Cardinality({i \in 1..(IF n < Len(s) THEN n ELSE Len(s)) : s[i] = LF})
\* the 1-based line and column of the k-th character of s
LineOf(s, k) == 1 + LineFeeds(s, k - 1)
ColumnOf(s, k) ==
  k - (IF \E j \in 1..(k - 1) : s[j] = LF
       THEN CHOOSE j \in 1..(k - 1) : s[j] = LF /\ \A i \in (j + 1)..(k - 1) : s[i] # LF
       ELSE 0)

\* read off the text: the gap before a token, from i characters into s on:
\* blanks, tabs, carriage returns and comments.  The value is the number of
\* characters before the token and whether the gap holds a blank, tab or
\* carriage return outside the comments.
RECURSIVE Gap(_, _, _)
Gap(s, i, ws) ==
  LET c == IF i < Len(s) THEN s[i + 1] ELSE NUL
      d == IF i + 1 < Len(s) THEN s[i + 2] ELSE NUL
      ends == {j \in (i + 2)..(Len(s) - 2) : s[j + 1] = "*" /\ s[j + 2] = "/"}
      feeds == {j \in i..(Len(s) - 1) : s[j + 1] = LF}
  IN IF c \in {" ", TAB, CR} THEN Gap(s, i + 1, TRUE)
     ELSE IF c = "/" /\ d = "/"
     THEN Gap(s, IF feeds = {} THEN Len(s) ELSE CHOOSE j \in feeds : \A k \in feeds : j <= k, ws)
     ELSE IF c = "/" /\ d = "*"
     THEN Gap(s, IF ends = {} THEN Len(s)
                 ELSE (CHOOSE j \in ends : \A k \in ends : j <= k) + 2, ws)
     ELSE [start |-> i, ws |-> ws]

\* C17 as claimed: the line counter of the scanner is 1 plus the number of
\* line feeds it has read, also when line feeds stand in a block comment, in a
\* string literal or in a triple-quoted string.
C17_LineCountsNewlines ==
  lexer.some => lexer.val.line = 1 + LineFeeds(text, lexer.val.read_position)

\* C18 as claimed: after next_token returns a token, line() and column() give
\* a place inside the token: the line its text lies on and a column from that
\* of its first character to that of its last (said of the tokens that have
\* text and lie on one line).
C18_PositionInsideToken ==
  \A i \in 1..Len(returned) :
    LET first == Gap(text, returned[i].from, FALSE).start + 1
        last == returned[i].position
    IN (/\ returned[i].token # Tok("EOF")
        /\ last <= Len(text)
        /\ LineOf(text, first) = LineOf(text, last)
        /\ text[last] # LF) =>
         /\ returned[i].line = LineOf(text, first)
         /\ returned[i].column >= ColumnOf(text, first)
         /\ returned[i].column <= ColumnOf(text, last)

\* C19: the (line, column) pair reported after a token is greater, in
\* lexicographic order, than the pair reported after the token before it.
C19_PositionsIncrease ==
  \A i \in 2..Len(returned) :
    \/ returned[i - 1].line < returned[i].line
    \/ /\ returned[i - 1].line = returned[i].line
       /\ returned[i - 1].column < returned[i].column

\* tokens on two lines: the pair after the line-feed token has the greater line
\* and the smaller column than the pair after the identifier before it; and
\* tokens asked for after the end of input
C19_Witness ==
  /\ Len(returned) = MaxTokens
  /\ returned[1].token = TokV("Identifier", <<"a">>)
  /\ returned[2].token = Tok("Newline")
  /\ returned[2].line > returned[1].line
  /\ returned[2].column < returned[1].column
  /\ returned[MaxTokens - 1].token = Tok("EOF")
  /\ returned[MaxTokens].token = Tok("EOF")

\* C20 as claimed: had_whitespace() is true for a token exactly when a blank,
\* tab or carriage return lies between the end of the token before it (or the
\* start of the input) and its start, comments in the gap changing nothing.
C20_WhitespaceFlag ==
  \A i \in 1..Len(returned) :
    returned[i].had_whitespace = Gap(text, returned[i].from, FALSE).ws

(***************************************************************************)
(* The lookahead buffer used on its own: Parser::new on the text, then     *)
(* Parser::next_token call after call.                                     *)
(***************************************************************************)
MaxAdvances == 4

\* Parser::next_token, called while the scanner is at most MaxAdvances
\* characters past the end of the text
Advance ==
  /\ pc = "new"
  /\ parser.lexer.position < Len(text) + MaxAdvances
  /\ parser' = Call("next_token", parser, <<>>)
  /\ UNCHANGED <<text, pc, statements, error, doc, diagnostics, scanVars, serverVars>>

NextAdvance == New \/ Advance

InitAdvance == InitWith(ScanTexts)

SpecAdvance == InitAdvance /\ [][NextAdvance]_vars

\* the scanner alone on the text: what each of its first n calls returned, the
\* flag it reported after the call and its position after the call
RECURSIVE ScanFrom(_, _)
ScanFrom(l, n) ==
  IF n = 0 THEN <<>>
  ELSE LET r == LexerNextToken(l)
       IN <<[token |-> r.tok, had_whitespace |-> r.l.had_whitespace_before_token,
             position |-> r.l.position]>> \o ScanFrom(r.l, n - 1)

\* the call of the scanner that left it where the scanner of parser p is: the
\* call that gave p its peek token
PeekCall(scans, p) == CHOOSE i \in 1..Len(scans) : scans[i].position = p.lexer.position

\* the buffer of p holds the tokens of two successive calls, each with its flag
BufferOf(scans, p) ==
  LET k == PeekCall(scans, p)
  IN /\ \E i \in 1..Len(scans) : scans[i].position = p.lexer.position
     /\ k >= 2
     /\ p.peek_token = scans[k].token
     /\ p.peek_had_whitespace = scans[k].had_whitespace
     /\ p.current_token = scans[k - 1].token
     /\ p.current_had_whitespace = scans[k - 1].had_whitespace

\* C21: after Parser::new and any number of next_token calls,
\* current_had_whitespace is the flag the scanner reported for the token in
\* current_token and peek_had_whitespace the flag it reported for the token in
\* peek_token.
C21_WhitespaceBitTravels ==
  pc = "new" => BufferOf(ScanFrom(LexerNew(text), Len(text) + MaxAdvances + 2), parser)

\* after an advance on a text whose second token follows a blank: the second
\* token is the current one, with its flag set, and the end of input is the
\* peek token, with its flag clear
C21_Witness ==
  /\ pc = "new"
  /\ text = <<"a", " ", "a">>
  /\ parser.current_token = TokV("Identifier", <<"a">>)
  /\ parser.current_had_whitespace
  /\ parser.peek_token = Tok("EOF")
  /\ ~parser.peek_had_whitespace
  /\ parser.lexer.position = Len(text) + 1

(* ---- an expression, a boundary token and what follows it ---------------- *)
\* what may stand before the expression: nothing (an expression statement) or
\* the head of a Set statement
ExprPrefixes == {<<>>, KwText("Set") \o <<" ","X"," ">>}
\* complete expressions
IfThen == KwText("If") \o <<" ","(","A",")"," ","{",LF,"B",LF,"}">>
IfThenElse == IfThen \o <<" ">> \o KwText("Else") \o <<" ","{",LF,"C",LF,"}">>
IfThenElif == IfThen \o <<" ">> \o KwText("Elif") \o <<" ","(","C",")"," ","{",LF,"}">>
Expressions ==
  {<<"A">>, <<"A"," ","+"," ","B">>, <<"F","(","A",")">>, <<"(","A",")">>,
   <<"[","A","]">>, <<"A","[","1","]">>, IfThen, IfThenElse, IfThenElif}
ExprHeads == {p \o e : p \in ExprPrefixes, e \in Expressions}
\* the boundary tokens a statement can be followed by
Boundaries == {<<LF>>, <<";">>, <<" ",";">>, <<LF, LF>>}
\* what follows the boundary: an operator, a parenthesis or a bracket and an
\* operand, or another statement, or nothing
Continuations ==
  {<<"-"," ","D">>, <<"*"," ","D">>, <<"(","D",")">>, <<"[","D","]">>,
   <<"=","="," ","D">>, <<"D">>, <<>>}

BoundaryTexts == {h \o b \o c : h \in ExprHeads, b \in Boundaries, c \in Continuations}

InitBoundary == InitWith(BoundaryTexts)

SpecBoundary == InitBoundary /\ [][Next]_vars

\* the statement that head h is when it stands alone
StatementOf(h) == parse(h).ast[1]

\* C22 as claimed: a complete expression followed by a boundary token is not
\* extended by what follows the boundary: the first statement of the document
\* is the one its head is alone, whatever follows the boundary, and an error
\* can only come after the first statement.
C22_StopsAtBoundary ==
  \A h \in ExprHeads, b \in Boundaries, c \in Continuations :
    text = h \o b \o c =>
      /\ Len(statements) >= 1 => statements[1] = StatementOf(h)
      /\ pc = "err" => Len(statements) >= 1

(* ---- decimal points ---------------------------------------------------- *)
\* a digit and then a few characters: digits, points, a letter
DecimalChars == {"1", "2", ".", ArabicThree, "a"}
MaxDecimalChars == 5
DecimalTexts == {<<"1">> \o t : t \in SeqsUpTo(DecimalChars, MaxDecimalChars - 1)}

InitDecimal == InitWith(DecimalTexts)

SpecDecimal == InitDecimal /\ [][NextScan]_vars

\* read off the text: the end of the run of digits (char::is_numeric) of s that
\* starts at its i-th character
DigitRun(s, i) ==
  CHOOSE j \in (i - 1)..Len(s) :
    /\ \A k \in i..j : IsNumeric(s[k])
    /\ j < Len(s) => ~IsNumeric(s[j + 1])
\* the length of the literal s starts with: its digits, and a point with the
\* digits after it when a digit follows the point
LiteralEnd(s) ==
  LET e == DigitRun(s, 1)
  IN IF e + 2 <= Len(s) /\ s[e + 1] = "." /\ IsNumeric(s[e + 2])
     THEN DigitRun(s, e + 2) ELSE e

\* C23: the number token takes a decimal point only when a digit follows the
\* point and the literal holds no point yet: the first token of a text that
\* starts with a digit ends where the literal ends, a literal of ASCII digits is
\* the Number of its value, and a point that follows the literal is scanned
\* after it, on its own.
C23_DecimalPoint ==
  LET e == LiteralEnd(text)
      literal == SubSeq(text, 1, e)
  IN /\ Len(returned) >= 1 =>
          /\ returned[1].position = e
          /\ (\A i \in 1..e : literal[i] \in AsciiDigits \cup {"."}) =>
                returned[1].token = TokV("Number", ParseF64(literal).val)
     /\ (Len(returned) >= 2 /\ e < Len(text) /\ text[e + 1] = ".") =>
          /\ returned[2].from = e
          /\ returned[2].token = TokV("Illegal", <<".">>)
          /\ returned[2].position = e + 1

\* 1.2.3 scanned: Number(1.2), the second point on its own, Number(3)
C23_Witness ==
  /\ text = <<"1", ".", "2", ".", "1">>
  /\ Len(returned) >= 3
  /\ returned[1].token = TokV("Number", <<"1", ".", "2">>)
  /\ returned[2].token = TokV("Illegal", <<".">>)
  /\ returned[3].token = TokV("Number", <<"1">>)

(* ---- operators of two characters --------------------------------------- *)
OperatorChars == {"-", ">", "=", "!", "<", "&", "|", "a", " "}
MaxOperatorChars == 3
OperatorTexts == SeqsUpTo(OperatorChars, MaxOperatorChars)

InitOperators == InitWith(OperatorTexts)

SpecOperators == InitOperators /\ [][NextScan]_vars

\* the pairs and their tokens, and the tokens of the first characters alone
OperatorPairs ==
  {<<"-", ">", Tok("Arrow")>>, <<"=", "=", Tok("Equal")>>, <<"!", "=", Tok("NotEqual")>>,
   <<"<", "=", Tok("LessEqual")>>, <<">", "=", Tok("GreaterEqual")>>,
   <<"&", "&", Tok("And")>>, <<"|", "|", Tok("Or")>>}
AloneToken(c) ==
  CASE c = "-" -> Tok("Minus") [] c = "=" -> Tok("Assign") [] c = "!" -> Tok("Not")
    [] c = "<" -> Tok("Less") [] c = ">" -> Tok("Greater")
    [] c \in {"&", "|"} -> TokV("Illegal", <<c>>)

\* C24: a token that starts at the first character of a pair is the token of
\* the pair and takes both characters when the partner follows, and is otherwise
\* the token of the first character alone (Illegal for & and |) and takes one
\* character.
C24_TwoCharacterOperators ==
  \A i \in 1..Len(returned) :
    LET s == Gap(text, returned[i].from, FALSE).start
        c == IF s < Len(text) THEN text[s + 1] ELSE NUL
        d == IF s + 1 < Len(text) THEN text[s + 2] ELSE NUL
    IN c \in {"-", "=", "!", "<", ">", "&", "|"} =>
         IF \E o \in OperatorPairs : o[1] = c /\ o[2] = d
         THEN /\ returned[i].position = s + 2
              /\ \E o \in OperatorPairs : o[1] = c /\ o[2] = d /\ returned[i].token = o[3]
         ELSE /\ returned[i].position = s + 1
              /\ returned[i].token = AloneToken(c)

\* a pair scanned as one token and a first character scanned alone
C24_Witness ==
  /\ text = <<"-", ">", "&">>
  /\ Len(returned) >= 3
  /\ returned[1].token = Tok("Arrow")
  /\ returned[1].position = 2
  /\ returned[2].token = TokV("Illegal", <<"&">>)
  /\ returned[3].token = Tok("EOF")

(* ---- the codes of parse-error diagnostics ------------------------------- *)
\* one-line statements: one that parses and seven that fail, with messages that
\* hold none, one or two of the substrings tested
SnakeName == Chars("UPPER_SNAKE_CASE")
LineCloseParen == <<")">>
LineSetNumberFirst == KwText("Set") \o <<" ","1"," ","x">>
LineSetLowerName == KwText("Set") \o <<" ","x"," ","1">>
LineGroupSnake == <<"(">> \o SnakeName \o <<" ">> \o SnakeName
LineSetSnakeLower == KwText("Set") \o <<" ">> \o SnakeName \o <<"x"," ","1">>
LineGroupUnexpected == <<"(","A"," ","\"">> \o Chars("Unexpected token") \o <<"\"">>
LineGroupInvalid == <<"(","A"," ","\"">> \o Chars("Invalid expression") \o <<"\"">>
CodeLines ==
  {LineSetUpper, LineCloseParen, LineSetNumberFirst, LineSetLowerName, LineGroupSnake,
   LineSetSnakeLower, LineGroupUnexpected, LineGroupInvalid}

CodeTexts == {JoinLines(ls) : ls \in SeqsUpTo(CodeLines, MaxLines)}

InitCodes == InitWith(CodeTexts)

SpecCodes == InitCodes /\ [][Next]_vars

\* the substrings tested, in the order of the claim, each with its code
CodeTests ==
  <<<<SnakeName, "E001">>, <<Chars("Unexpected token"), "E002">>,
    <<Chars("Expected"), "E003">>, <<Chars("Invalid expression"), "E004">>>>
\* code is the code of the first test that message passes, E000 if it passes none
CodeAsClaimed(message, code) ==
  /\ code \in {"E000", "E001", "E002", "E003", "E004"}
  /\ \A k \in 1..Len(CodeTests) :
       code = CodeTests[k][2] <=>
         /\ Contains(message, CodeTests[k][1])
         /\ \A j \in 1..(k - 1) : ~Contains(message, CodeTests[j][1])
\* messages made of the substrings tested: none, one, or two in either order
NeedleMessages ==
  {Chars("Parse error: ") \o Concat(ns) :
     ns \in SeqsUpTo({CodeTests[k][1] \o <<" ">> : k \in 1..Len(CodeTests)}, 2)}

\* C25: the code of a parse-error diagnostic is the code of the first of the
\* tests "UPPER_SNAKE_CASE" (E001), "Unexpected token" (E002), "Expected" (E003),
\* "Invalid expression" (E004) that its message passes, and E000 when it passes
\* none: for the diagnostics of every document, and for every message made of
\* the substrings tested.
C25_ErrorCodes ==
  /\ diagnostics.some =>
       \A i \in 1..Len(diagnostics.val) :
         diagnostics.val[i].severity = "ERROR" =>
           CodeAsClaimed(to_string(diagnostics.val[i].message), diagnostics.val[i].code)
  /\ \A m \in NeedleMessages : CodeAsClaimed(m, error_code_from_message(m))

\* the diagnostic of a message that holds "Unexpected token" and "Expected":
\* its code is E002
C25_Witness ==
  /\ diagnostics.some
  /\ Len(diagnostics.val) = 1
  /\ diagnostics.val[1].code = "E002"
  /\ Contains(to_string(diagnostics.val[1].message), Chars("Expected RightParen"))
  /\ Contains(to_string(diagnostics.val[1].message), Chars("Unexpected token"))

(* ---- termination -------------------------------------------------------- *)
\* statements that go through each loop of the parser, closed and left open,
\* well formed and with tokens out of place
TextWhile == KwText("While") \o <<" ","(","X",")"," ","{",LF>> \o KwText("Continue") \o <<LF,"}">>
TextWhileOpen == KwText("While") \o <<" ","(","X",")"," ","{",LF>> \o KwText("Continue")
TextSwitch ==
  JoinLines(<<LineSwitchOpen, <<"X"," ","1">>, LineCaseOne, LineCall, LineDefault, LineCall>>)
    \o <<"}">>
TextSwitchOpen == LineSwitchOpen \o <<LF, ")", " ", "]">>
TextImport ==
  KwText("Import") \o <<" ","{","A",","," ","C"," ">> \o KwText("As") \o <<" ","B","}">> \o ImportEnd
TextImportOpen == KwText("Import") \o <<" ","{","A",",">>
TextFunc == KwText("Func") \o <<" ","F","(","a",","," ","b",")"," ","{","}">>
TextFuncOpen == KwText("Func") \o <<" ","F","(","a",",">>
TextArray == <<"[","X",","," ","X",LF,"X","]">>
TextArrayOpen == <<"[","X"," ","X">>
TextDict == <<"{","a",":"," ","1",","," ","b",":"," ","2","}">>
TextDictOpen == <<"{","a",":"," ","1"," ","b",":"," ","2">>
TextCall == <<"P","(","X",","," ","X",")">>
TextCallOpen == <<"P","(","X"," ","X">>
TextInfix == <<"X"," ","+"," ","X"," ","*"," ","X"," ","-"," ","X">>
TextInfixOpen == <<"X"," ","+">>
TextBreak == KwText("Break")
TerminationPieces ==
  {TextWhile, TextWhileOpen, TextSwitch, TextSwitchOpen, TextImport, TextImportOpen,
   TextFunc, TextFuncOpen, TextArray, TextArrayOpen, TextDict, TextDictOpen, TextCall,
   TextCallOpen, TextInfix, TextInfixOpen, TextBreak, <<>>, <<LF>>}

TerminationTexts == {a \o <<LF>> \o b : a, b \in TerminationPieces}

InitTermination == InitWith(TerminationTexts)

\* a step of Next can be taken in every state but the last one, where the
\* document is built and analysed
Running == ~(pc = "done" /\ diagnostics.some)

\* the thread that parses runs on: weak fairness of Next, WF_vars(Next), with
\* ENABLED <<Next>>_vars written as Running
SpecTermination ==
  InitTermination /\ [][Next]_vars /\ ([]<>~Running \/ []<><<Next>>_vars)

\* C27: parsing terminates: Parser::parse returns a document in the end, every
\* iteration of the loop of parse_program that goes on has moved the scanner
\* forward, and the scanner is never asked for more than the two tokens of
\* lookahead past the end of the text.
C27_ParsingTerminates ==
  /\ <>(pc = "done" /\ doc.some)
  /\ [][(pc = "loop" /\ pc' = "loop") => parser'.lexer.position > parser.lexer.position]_vars
  /\ [](pc # "start" => parser.lexer.position <= Len(text) + 2)

\* a Switch with tokens out of place parsed, then an array left open: the
\* document of the error
C27_Witness ==
  /\ text = TextSwitch \o <<LF>> \o TextArrayOpen
  /\ pc = "done"
  /\ Len(statements) = 1
  /\ statements[1].kind = "Switch"
  /\ doc.some
  /\ Len(doc.val.errors) = 1

(* ---- tokens at block level of a Switch body ----------------------------- *)
\* lines of tokens that are no Case, Default or closing brace: a declaration
\* with a lowercase name, closing delimiters, an expression left open, keywords
SkippedLines ==
  {LineSetLower, <<")", " ", "]">>, <<"1", " ", "+">>, KwText("Func"),
   KwText("Lazy") \o <<" ","l","(">>}
MaxSkippedLines == 2
\* a Switch: the skipped lines, a Case block, a Default block or none, and the
\* closing brace or none
SkipText(skipped, with_default, closed) ==
  JoinLines(<<LineSwitchOpen>> \o skipped \o <<LineCaseOne, LineCall>>
              \o (IF with_default THEN <<LineDefault, LineSetUpper>> ELSE <<>>))
    \o (IF closed THEN <<"}">> ELSE <<>>)
SkipTexts ==
  {SkipText(s, d, c) : s \in SeqsUpTo(SkippedLines, MaxSkippedLines), d \in BOOLEAN, c \in BOOLEAN}

InitSkip == InitWith(SkipTexts)

SpecSkip == InitSkip /\ [][Next]_vars

\* C29: the tokens before the first Case or Default of a Switch body are
\* skipped: they raise no error (not even a declaration with a lowercase name)
\* and add nothing to the statement, which is the Switch of the blocks written;
\* without a closing brace the only error is the missing brace.
C29_SwitchSkipsTokens ==
  \A s \in SeqsUpTo(SkippedLines, MaxSkippedLines) : \A d \in BOOLEAN, c \in BOOLEAN :
    (text = SkipText(s, d, c) /\ pc \in {"err", "done"}) =>
      IF c
      THEN /\ ~error.some
           /\ statements =
                <<SSwitch(EIdentifier(<<"X">>),
                          <<<<ENumber(<<"1">>), <<StmtOfLine(LineCall)>>>>>>,
                          IF d THEN Some(<<StmtOfLine(LineSetUpper)>>) ELSE None)>>
      ELSE /\ error.some
           /\ error.val.kind = "UnexpectedToken"
           /\ error.val.expected = "RightBrace"
           /\ error.val.found = Tok("EOF")
           /\ statements = <<>>

\* a Switch parsed whose body starts with a declaration of a lowercase name and
\* an expression left open
C29_Witness ==
  /\ text = SkipText(<<LineSetLower, <<"1", " ", "+">>>>, TRUE, TRUE)
  /\ pc = "done"
  /\ doc.some
  /\ doc.val.errors = <<>>
  /\ Len(doc.val.ast) = 1
  /\ Len(doc.val.ast[1].cases) = 1
  /\ doc.val.symbols.variables # <<>>

(***************************************************************************)
(* The backend with the did_open and did_change events arriving at any     *)
(* time: the handlers of one uri run side by side.                         *)
(***************************************************************************)
\* the texts of the events: one that parses and one that fails
ConcurrentTexts == {LineSetUpper, LineSetLower}

NextConcurrent ==
  \/ \E uri \in Uris, t \in ConcurrentTexts : DidOpen(uri, t)
  \/ \E uri \in Uris, changes \in SeqsUpTo(ConcurrentTexts, 1) : DidChange(uri, changes)
  \/ ParseAndAnalyze
  \/ CacheAndPublish
  \/ HandlerReturns

InitConcurrent == InitWith({<<>>})

SpecConcurrent == InitConcurrent /\ [][NextConcurrent]_vars

\* the entry of every cached uri is the whole parse of one of the texts received
WholeEntries ==
  \A u \in DOMAIN documents :
    \E t \in ConcurrentTexts : documents[u] = parse(t)
\* every handler has returned
AllFinished == tasks = EmptyBag

\* C30: with handlers interleaved at their awaits, the entry of a uri is at
\* all times absent or the whole parse of one received text, and once all
\* handlers have finished the diagnostics last published for a uri are those
\* of the parse result the cache holds for it.
C30_InterleavedHandlers ==
  /\ WholeEntries
  /\ AllFinished =>
       \A u \in DOMAIN published :
         /\ u \in DOMAIN documents
         /\ published[u] = analyze(documents[u], documents[u].text)

\* all handlers have finished, and the one that returned last, with the text
\* that fails, is not the one whose parse the cache holds: another handler of
\* the uri wrote the cache and published while it stood at its last await
C30_Witness ==
  /\ AllFinished
  /\ reply.some
  /\ reply.val.uri = "file:///a.aether"
  /\ reply.val.text = Some(LineSetLower)
  /\ "file:///a.aether" \in DOMAIN documents
  /\ documents["file:///a.aether"].text = LineSetUpper
  /\ published["file:///a.aether"] = <<>>

====
